---- MODULE Spec2Model ----
(***************************************************************************)
(* Verification model of the AskVault chat pipeline:                       *)
(*   - ChatView (src/ChatView.ts): threads, the per-thread streaming flag, *)
(*     the input state and the asynchronous sendMessage handler;           *)
(*   - LLMService (src/LLMService.ts): the two streaming response parsers. *)
(* Text is modelled by TLA+ strings, so that splitting, prefix tests and   *)
(* concatenation are computed the way the code computes them.              *)
(***************************************************************************)
EXTENDS Integers, Sequences, FiniteSets, TLC

\* ---------------------------------------------------------------- bounds
MaxThreads == 2      \* thread objects ever created
MaxSends   == 3      \* sendMessage invocations ever started

\* ---------------------------------------------------------------- inputs
Questions == {"q"}
Answers   == {<<"Hi">>}      \* fragments a backend streams
Instants  == 0..(MaxThreads - 1)               \* values Date.now() takes

NoThread == 0                \* getCurrentThread() returned null
TopK     == 3                \* search(message, 3)

VARIABLES
    now,               \* Date.now()
    apiKey,            \* settings.apiKey is non-empty
    documents,         \* VectorService.documents (paths, in insertion order)
    threadObjs,        \* every ChatThread object ever created, by identity
    threads,           \* ChatView.threads: identities, in list order
    currentThreadId,   \* ChatView.currentThreadId ("" is null)
    streamingThreads,  \* ChatView.streamingThreads : Map<string, boolean>
    inputEnabled,      \* messageInput / sendButton are not disabled
    systemMessage,     \* text of the last system message in messagesContainer
    started,           \* sendMessage invocations started so far
    sends,             \* the sendMessage invocations that have not returned
    data               \* the persisted plugin data object

chatVars == <<now, apiKey, documents, threadObjs, threads, currentThreadId,
              streamingThreads, inputEnabled, systemMessage, started, sends, data>>

VARIABLES
    format,            \* which parser reads the body: "openai" or "claude"
    script,            \* the lines the server wrote into the response body
    wire,              \* the part of the body reader.read() has not returned yet
    fullText,          \* the parser's fullText accumulator
    sink,              \* the fragments passed to onChunk, in call order
    torn,              \* some read ended inside a line
    reads,             \* reader.read() calls that returned a value
    readerPc           \* "idle", "reading", "returned" or "threw"

readerVars == <<format, script, wire, fullText, sink, torn, reads, readerPc>>

VARIABLES
    vault,             \* app.vault: the content of every file, by path
    edits,             \* modifications made to vault files so far
    isIndexing,        \* AskVaultPlugin.isIndexing
    indexingCancelled, \* AskVaultPlugin.indexingCancelled
    indexCalls,        \* indexVaultFiles calls made so far
    jobs,              \* the indexVaultFiles calls running or last returned
    upserts,           \* the addDocument calls waiting for their embedding
    upsertCalls,       \* addDocument calls made from outside the indexing job
    vectorIndex        \* the documents of the vectorIndex key of persisted data

indexVars == <<vault, edits, isIndexing, indexingCancelled, indexCalls, jobs, upserts,
               upsertCalls, vectorIndex>>

\* the chat view's own state: everything but the store and the persisted data
viewVars == <<now, apiKey, threadObjs, threads, currentThreadId, streamingThreads,
              inputEnabled, systemMessage, started, sends, data>>

VARIABLES
    remote,            \* the embedding endpoint answers with a success status
    lookup,            \* the VectorService.search call under study
    autoNamed,         \* per thread object, how often sendMessage has set its name
    saving             \* the saveThreads calls that have not completed

VARIABLES
    filterSettings,    \* settings.blacklistFiles, whitelistExtensions, whitelistFolders
    verdict            \* the last answer of shouldIndexFile, with its candidate

filterVars == <<filterSettings, verdict>>

serviceVars == <<remote, lookup, autoNamed, saving, filterVars>>

vars == <<chatVars, readerVars, indexVars, serviceVars>>

\* ------------------------------------------------------------ text helpers
RECURSIVE Concat(_)
Concat(ss) == IF ss = <<>> THEN "" ELSE Head(ss) \o Concat(Tail(ss))

StartsWith(s, p) == Len(s) >= Len(p) /\ SubSeq(s, 1, Len(p)) = p
EndsWith(s, p)   == Len(s) >= Len(p) /\ SubSeq(s, Len(s) - Len(p) + 1, Len(s)) = p
Slice(s, n)      == SubSeq(s, n + 1, Len(s))

\* the characters the texts are written with, each run in code order
Uppercase == "ABCDEFGHIJKLMNOPQRSTUVWXYZ"
Lowercase == "abcdefghijklmnopqrstuvwxyz"
Numerals  == "0123456789"

\* the position of the character ch in the run
Position(run, ch) == CHOOSE n \in 1..Len(run) : SubSeq(run, n, n) = ch

Within(run, ch) == \E n \in 1..Len(run) : SubSeq(run, n, n) = ch

Letters(run) == {SubSeq(run, n, n) : n \in 1..Len(run)}

\* the UTF-16 code of every character the texts are written with
CharCodes ==
    [ch \in Letters(Uppercase) \cup Letters(Lowercase) \cup Letters(Numerals) \cup {" ", "."} |->
        CASE Within(Uppercase, ch) -> 64 + Position(Uppercase, ch)
          [] Within(Lowercase, ch) -> 96 + Position(Lowercase, ch)
          [] Within(Numerals, ch)  -> 47 + Position(Numerals, ch)
          [] ch = " " -> 32
          [] ch = "." -> 46]

\* content.charCodeAt(i)
CharCode(ch) == CharCodes[ch]

Half == 65536        \* 2^16: a 32-bit integer is kept as two 16-bit halves <<high, low>>

\* the step without the subtraction: 32 * hash + char modulo 2^32
HashStepShift(h, char) ==
    LET low == h[2] * 32 + char
    IN <<(h[1] * 32 + low \div Half) % Half, low % Half>>

\* hash = ((hash << 5) - hash) + char; hash = hash & hash
\* on the 32-bit pattern of hash: 31 * hash + char modulo 2^32
HashStep(h, char) ==
    LET low == h[2] * 31 + char
    IN <<(h[1] * 31 + low \div Half) % Half, low % Half>>

RECURSIVE HashLoop(_, _)
HashLoop(h, content) ==
    IF content = "" THEN h
    ELSE HashLoop(HashStep(h, CharCode(SubSeq(content, 1, 1))),
                  SubSeq(content, 2, Len(content)))

\* the signed value of a 32-bit pattern
ToInt32(h) ==
    IF h[1] >= Half \div 2 THEN (h[1] - Half) * Half + h[2] ELSE h[1] * Half + h[2]

\* hashCode of VectorService: the same loop, as a signed 32-bit value
HashCode(str) == ToInt32(HashLoop(<<0, 0>>, str))

\* ------------------------------------------------------------ ChatView
\* the values Date.now() can return after it last returned now
ClockReadings == {t \in Instants : now <= t /\ t <= now + 1}

ThreadId(t) == "thread-" \o ToString(t)

DefaultName(n) == "Chat " \o ToString(n)

Digits == {"0", "1", "2", "3", "4", "5", "6", "7", "8", "9"}

\* /^Chat \d+$/.test(name)
HasDefaultName(name) ==
    /\ StartsWith(name, "Chat ")
    /\ Len(name) > 5
    /\ \A k \in 6..Len(name) : SubSeq(name, k, k) \in Digits

\* message.length > 50 ? message.substring(0, 47) + '...' : message
AutoName(message) ==
    IF Len(message) > 50 THEN SubSeq(message, 1, 47) \o "..." ELSE message

\* this.threads.find(t => t.id === id) || null
FindThread(list, objs, id) ==
    IF \E k \in 1..Len(list) : objs[list[k]].id = id
    THEN list[CHOOSE k \in 1..Len(list) :
                 /\ objs[list[k]].id = id
                 /\ \A j \in 1..(k - 1) : objs[list[j]].id # id]
    ELSE NoThread

GetCurrentThread == FindThread(threads, threadObjs, currentThreadId)

\* this.streamingThreads.get(id) || false
IsStreaming(map, id) == id \in DOMAIN map /\ map[id]

\* this.streamingThreads.set(id, v)
MapSet(map, id, v) == [k \in (DOMAIN map) \cup {id} |-> IF k = id THEN v ELSE map[k]]

\* how often the thread object t has been named after a message
Named(counts, t) == IF t \in DOMAIN counts THEN counts[t] ELSE 0

\* JSON written by saveData for this.threads
ThreadsSnapshot(list, objs) == [k \in 1..Len(list) |-> objs[list[k]]]

\* ------------------------------------------------------------ VectorService
\* A vector is written [length |-> n, at |-> f]: f gives the entries that are
\* not zero, by index from 0.
Provider  == "openai"    \* settings.provider
LocalDim  == 300         \* new Array(300)
RemoteDim == 1536        \* the length of a text-embedding-3-small vector
Probes    == 5           \* for (let i = 0; i < 5; i++)
ProbeStep == 997         \* hash + i * 997
MaxInput  == 8000        \* text.substring(0, 8000)

Abs(n) == IF n < 0 THEN 0 - n ELSE n

RECURSIVE SumOver(_, _)
SumOver(f, S) ==
    IF S = {} THEN 0
    ELSE LET n == CHOOSE n \in S : TRUE IN f[n] + SumOver(f, S \ {n})

RECURSIVE ToLowerCase(_)
ToLowerCase(text) ==
    IF text = "" THEN ""
    ELSE LET ch == SubSeq(text, 1, 1)
             low == IF Within(Uppercase, ch)
                    THEN SubSeq(Lowercase, Position(Uppercase, ch), Position(Uppercase, ch))
                    ELSE ch
         IN low \o ToLowerCase(SubSeq(text, 2, Len(text)))

\* the text after its leading white space
RECURSIVE SkipSpaces(_)
SkipSpaces(text) ==
    IF text # "" /\ SubSeq(text, 1, 1) = " " THEN SkipSpaces(SubSeq(text, 2, Len(text)))
    ELSE text

\* the words of text, word being the part of the current word read so far
RECURSIVE SplitFrom(_, _)
SplitFrom(text, word) ==
    IF text = "" THEN <<word>>
    ELSE IF SubSeq(text, 1, 1) = " " THEN <<word>> \o SplitFrom(SkipSpaces(text), "")
    ELSE SplitFrom(SubSeq(text, 2, Len(text)), word \o SubSeq(text, 1, 1))

\* text.split(/\s+/)
SplitWords(text) == SplitFrom(text, "")

\* generateSimpleEmbedding: the accumulator, every word counted at its five
\* indices. The final division by the magnitude is left out: it scales the
\* vector, and cosineSimilarity does not depend on the scale.
SimpleEmbedding(text) ==
    LET words == SplitWords(ToLowerCase(text))
        hash == [w \in 1..Len(words) |-> HashCode(words[w])]
        probes == (1..Len(words)) \X (0..(Probes - 1))
        index == [q \in probes |-> Abs(hash[q[1]] + q[2] * ProbeStep) % LocalDim]
    IN [length |-> LocalDim,
        at |-> [n \in {index[q] : q \in probes} |->
                   Cardinality({q \in probes : index[q] = n})]]

\* the vectors of the texts typed in the chat, computed once
TypedEmbeddings == [text \in Questions |-> SimpleEmbedding(text)]

\* generateSimpleEmbedding
GenerateSimpleEmbedding(text) ==
    IF text \in DOMAIN TypedEmbeddings THEN TypedEmbeddings[text] ELSE SimpleEmbedding(text)

\* generateOpenAIEmbedding: the vector the endpoint answers with, or the error
\* thrown for a failed fetch or a status that is not a success
GenerateOpenAIEmbedding(text) ==
    IF remote
    THEN LET input == SubSeq(text, 1, IF Len(text) < MaxInput THEN Len(text) ELSE MaxInput)
         IN [ok |-> TRUE,
             embedding |-> [length |-> RemoteDim,
                            at |-> [n \in {Abs(HashCode(input)) % RemoteDim} |-> 1]]]
    ELSE [ok |-> FALSE]

\* generateEmbedding without the try around the remote call
GenerateEmbeddingNoCatch(text) ==
    IF Provider = "openai" /\ apiKey
    THEN GenerateOpenAIEmbedding(text)
    ELSE [ok |-> TRUE, embedding |-> GenerateSimpleEmbedding(text)]

\* generateEmbedding: the remote vector when a key is configured and the call
\* succeeds, the simple one otherwise
GenerateEmbedding(text) ==
    IF Provider = "openai" /\ apiKey /\ GenerateOpenAIEmbedding(text).ok
    THEN GenerateOpenAIEmbedding(text)
    ELSE [ok |-> TRUE, embedding |-> GenerateSimpleEmbedding(text)]

\* dotProduct += a[i] * b[i], over the entries that are not zero in both
Dot(a, b) ==
    SumOver([n \in (DOMAIN a.at) \cap (DOMAIN b.at) |-> a.at[n] * b.at[n]],
            (DOMAIN a.at) \cap (DOMAIN b.at))

\* if (a.length !== b.length) throw new Error('Vectors must have the same length')
LengthsDiffer(a, b) == a.length # b.length

\* cosineSimilarity for vectors of one length. No entry is negative, so the
\* score dot / (|a| |b|) is kept as its square, the fraction num / den.
CosineSimilarity(a, b) ==
    IF Dot(a, a) = 0 \/ Dot(b, b) = 0 THEN [num |-> 0, den |-> 1]
    ELSE [num |-> Dot(a, b) * Dot(a, b), den |-> Dot(a, a) * Dot(b, b)]

\* x.score > y.score, x.score = y.score
Greater(x, y)   == x.num * y.den > y.num * x.den
SameScore(x, y) == x.num * y.den = y.num * x.den

\* a document indexed with the simple embedding of its summary
Doc(path, summary) ==
    [path |-> path, content |-> "c", embedding |-> GenerateSimpleEmbedding(summary)]

\* the stores restored by loadIndexData: nothing indexed yet, or two files
Stores == {<<>>, <<Doc("a.md", "s"), Doc("b.txt", "q")>>}

\* position of element i after results.sort((a, b) => b.score - a.score)
SortRank(score, i) ==
    1 + Cardinality({j \in DOMAIN score :
                        Greater(score[j], score[i])
                        \/ (SameScore(score[j], score[i]) /\ j < i)})

SortByScore(results) ==
    LET score == [i \in 1..Len(results) |-> results[i].score] IN
    [r \in 1..Len(results) |-> results[CHOOSE i \in 1..Len(results) : SortRank(score, i) = r]]

\* search rejects: the embedding of the query failed, or a stored vector has
\* another length than the query's
SearchThrows(docs, query) ==
    /\ Len(docs) > 0
    /\ \/ ~GenerateEmbedding(query).ok
       \/ \E i \in 1..Len(docs) :
              LengthsDiffer(GenerateEmbedding(query).embedding, docs[i].embedding)

\* search: score every document, sort descending, slice(0, topK). The query
\* embedding and the scored list are bound once, as the code's two constants.
Search(docs, query, k) ==
    IF Len(docs) = 0 THEN <<>>
    ELSE CHOOSE top \in
             {SubSeq(SortByScore(results), 1, IF k < Len(docs) THEN k ELSE Len(docs)) :
                results \in
                  {[i \in 1..Len(docs) |->
                       [path |-> docs[i].path, content |-> docs[i].content,
                        score |-> CosineSimilarity(queryEmbedding, docs[i].embedding)]] :
                     queryEmbedding \in {GenerateEmbedding(query).embedding}}} : TRUE

\* ------------------------------------------------------------ sendMessage
SourcesHeader == "\n\n---\n\n**Sources:**\n\n"

\* doc.path.replace(/\.md$/, '')
FileName(path) ==
    IF EndsWith(path, ".md") THEN SubSeq(path, 1, Len(path) - 3) ELSE path

RECURSIVE SourcesLines(_)
SourcesLines(docs) ==
    IF docs = <<>> THEN ""
    ELSE "- [[" \o FileName(Head(docs).path) \o "]]\n" \o SourcesLines(Tail(docs))

\* a Sources section that names the best document only
SourcesTextFirst(docs) == SourcesHeader \o SourcesLines(SubSeq(docs, 1, 1))

\* sourcesText after the forEach over relevantDocs
SourcesText(docs) == SourcesHeader \o SourcesLines(docs)

UserMessage(text)      == [role |-> "user", content |-> text]
AssistantMessage(text) == [role |-> "assistant", content |-> text]

\* only the assistant message is pushed
PushAnswerOnly(history, message, answer) == Append(history, AssistantMessage(answer))

\* only the first of the two pushes
PushQuestionOnly(history, message, answer) == Append(history, UserMessage(message))

\* the two history.push calls after the stream has ended
PushExchange(history, message, answer) ==
    Append(Append(history, UserMessage(message)), AssistantMessage(answer))

\* a call is entered / has returned
Spawn(calls, i, frame) == [k \in (DOMAIN calls) \cup {i} |-> IF k = i THEN frame ELSE calls[k]]
Return(calls, i)       == [k \in (DOMAIN calls) \ {i} |-> calls[k]]

\* a finally block that enables the input but leaves the flag as it is
FinallyKeepsFlag(t, objs) ==
    /\ streamingThreads' = streamingThreads
    /\ threadObjs' = objs
    /\ inputEnabled' = TRUE

\* the finally block: clear the flag of the send's thread, enable the input
Finally(t, objs) ==
    /\ streamingThreads' = MapSet(streamingThreads, objs[t].id, FALSE)
    /\ threadObjs' = [objs EXCEPT ![t].isStreaming = FALSE]
    /\ inputEnabled' = TRUE

\* a catch block that swallows the error
CatchSilent(text) == systemMessage' = systemMessage

\* the catch block: one system message carrying the error text
Catch(text) == systemMessage' = "Error: " \o text

\* synchronous part of sendMessage, up to the await of search
SendStart(message) ==
    LET t == GetCurrentThread IN
    /\ inputEnabled
    /\ started < MaxSends
    /\ message # ""
    /\ IF t = NoThread
       THEN /\ systemMessage' = "No active thread. Please create a new thread first."
            /\ UNCHANGED <<threadObjs, streamingThreads, inputEnabled, started, sends,
                           autoNamed>>
       ELSE LET th == threadObjs[t]
                renamed == IF Len(th.history) = 0 /\ HasDefaultName(th.name)
                           THEN AutoName(message) ELSE th.name
            IN /\ threadObjs' = [threadObjs EXCEPT ![t].name = renamed,
                                                   ![t].isStreaming = TRUE]
               /\ streamingThreads' = MapSet(streamingThreads, th.id, TRUE)
               /\ inputEnabled' = FALSE
               /\ started' = started + 1
               /\ sends' = Spawn(sends, started + 1,
                     [thread |-> t, message |-> message, pc |-> "search",
                      emptyAtCall |-> (Len(documents) = 0), docs |-> <<>>,
                      pending |-> <<>>, fullText |-> "", fullResponse |-> "",
                      rendered |-> "", requests |-> 0])
               /\ autoNamed' = IF Len(th.history) = 0 /\ HasDefaultName(th.name)
                               THEN MapSet(autoNamed, t, Named(autoNamed, t) + 1)
                               ELSE autoNamed
               /\ UNCHANGED systemMessage
    /\ UNCHANGED <<now, apiKey, documents, threads, currentThreadId, data>>
    /\ UNCHANGED <<readerVars, indexVars, remote, lookup, saving, filterVars>>

\* the fixed reply is recorded in the history like an answer
SendSearchEmptyRecorded(i) ==
    /\ UNCHANGED <<readerVars, indexVars, serviceVars>>
    /\ sends[i].pc = "search"
    /\ sends[i].emptyAtCall
    /\ sends' = Return(sends, i)
    /\ Finally(sends[i].thread,
               [threadObjs EXCEPT ![sends[i].thread].history =
                    PushExchange(@, sends[i].message, "I couldn't find any relevant information")])
    /\ UNCHANGED <<started, now, apiKey, documents, threads, currentThreadId,
                   systemMessage, data>>

\* search resolved with no document: fixed reply, return, finally
SendSearchEmpty(i) ==
    /\ UNCHANGED <<readerVars, indexVars, serviceVars>>
    /\ sends[i].pc = "search"
    /\ sends[i].emptyAtCall
    /\ sends' = Return(sends, i)
    /\ Finally(sends[i].thread, threadObjs)
    /\ UNCHANGED <<started, now, apiKey, documents, threads, currentThreadId,
                   systemMessage, data>>

\* search resolved with documents; chatStream is entered
SendSearchDone(i, answer) ==
    /\ UNCHANGED <<readerVars, indexVars, serviceVars>>
    /\ sends[i].pc = "search"
    /\ ~sends[i].emptyAtCall
    /\ LET throws == SearchThrows(documents, sends[i].message)
           found  == Search(documents, sends[i].message, TopK)
       IN
       IF throws
       THEN /\ sends' = Return(sends, i)
            /\ Catch("Vectors must have the same length")
            /\ Finally(sends[i].thread, threadObjs)
       ELSE IF found = <<>>
       THEN /\ sends' = Return(sends, i)
            /\ Finally(sends[i].thread, threadObjs)
            /\ UNCHANGED systemMessage
       ELSE IF ~apiKey
       THEN /\ sends' = Return(sends, i)
            /\ Catch("API key not configured. Please set it in settings.")
            /\ Finally(sends[i].thread, threadObjs)
       ELSE /\ sends' = [sends EXCEPT ![i].pc = "stream", ![i].docs = found,
                                      ![i].requests = @ + 1, ![i].pending = answer]
            /\ UNCHANGED <<threadObjs, streamingThreads, inputEnabled, systemMessage>>
    /\ UNCHANGED <<started, now, apiKey, documents, threads, currentThreadId, data>>

\* the backend answered with a non-success status (before any text)
SendHttpError(i) ==
    /\ UNCHANGED <<readerVars, indexVars, serviceVars>>
    /\ sends[i].pc = "stream"
    /\ sends[i].fullText = ""
    /\ sends' = Return(sends, i)
    /\ Catch("OpenAI API error: body")
    /\ Finally(sends[i].thread, threadObjs)
    /\ UNCHANGED <<started, now, apiKey, documents, threads, currentThreadId, data>>

\* fetch or reader.read() rejected
SendStreamError(i) ==
    /\ UNCHANGED <<readerVars, indexVars, serviceVars>>
    /\ sends[i].pc = "stream"
    /\ sends' = Return(sends, i)
    /\ Catch("network error")
    /\ Finally(sends[i].thread, threadObjs)
    /\ UNCHANGED <<started, now, apiKey, documents, threads, currentThreadId, data>>

\* onChunk: fullResponse += chunk; updateAssistantMessage(element, fullResponse)
SendChunk(i) ==
    /\ UNCHANGED <<readerVars, indexVars, serviceVars>>
    /\ sends[i].pc = "stream"
    /\ sends[i].pending # <<>>
    /\ LET chunk == Head(sends[i].pending) IN
       sends' = [sends EXCEPT ![i].pending = Tail(@),
                              ![i].fullText = @ \o chunk,
                              ![i].fullResponse = @ \o chunk,
                              ![i].rendered = sends[i].fullResponse \o chunk]
    /\ UNCHANGED <<started, now, apiKey, documents, threadObjs, threads, currentThreadId,
                   streamingThreads, inputEnabled, systemMessage, data>>

\* chatStream returned: sources appended and rendered, history pushed,
\* saveThreads awaited
SendStreamEnd(i, t) ==
    /\ UNCHANGED <<readerVars, indexVars, serviceVars>>
    /\ sends[i].pc = "stream"
    /\ sends[i].pending = <<>>
    /\ t \in ClockReadings
    /\ now' = t
    /\ LET th == sends[i].thread
           response == sends[i].fullText
           fullResponseWithSources == response \o SourcesText(sends[i].docs)
       IN /\ sends' = [sends EXCEPT ![i].pc = "save",
                                    ![i].fullResponse = @ \o SourcesText(sends[i].docs),
                                    ![i].rendered = fullResponseWithSources]
          /\ threadObjs' = [threadObjs EXCEPT
                 ![th].history = PushExchange(@, sends[i].message, fullResponseWithSources),
                 ![th].updatedAt = t]
    /\ UNCHANGED <<started, apiKey, documents, threads, currentThreadId,
                   streamingThreads, inputEnabled, systemMessage, data>>

\* saveThreads wrote the thread list; then the finally block
SendSaved(i) ==
    /\ UNCHANGED <<readerVars, indexVars, serviceVars>>
    /\ sends[i].pc = "save"
    /\ data' = [data EXCEPT !.threads = ThreadsSnapshot(threads, threadObjs)]
    /\ sends' = Return(sends, i)
    /\ Finally(sends[i].thread, threadObjs)
    /\ UNCHANGED <<started, now, apiKey, documents, threads, currentThreadId,
                   systemMessage>>

\* ------------------------------------------------------------ threads
\* switchToThread: select, empty and re-render the container, restore the input
SwitchTo(id, list, objs) ==
    /\ currentThreadId' = id
    /\ IF FindThread(list, objs, id) = NoThread
       THEN UNCHANGED <<systemMessage, inputEnabled>>
       ELSE /\ systemMessage' = ""
            /\ inputEnabled' = ~IsStreaming(streamingThreads, id)

NewThread(list, t) ==
    [id |-> ThreadId(t), name |-> DefaultName(Len(list) + 1), history |-> <<>>,
     createdAt |-> t, updatedAt |-> t, isStreaming |-> FALSE]

SwitchToThread(id) ==
    /\ UNCHANGED <<readerVars, indexVars, serviceVars>>
    /\ \E k \in 1..Len(threads) : threadObjs[threads[k]].id = id
    /\ SwitchTo(id, threads, threadObjs)
    /\ UNCHANGED <<started, now, apiKey, documents, threadObjs, threads, streamingThreads,
                   sends, data>>

CreateNewThread(t) ==
    /\ UNCHANGED <<readerVars, indexVars, serviceVars>>
    /\ Len(threadObjs) < MaxThreads
    /\ t \in ClockReadings
    /\ now' = t
    /\ LET objs == Append(threadObjs, NewThread(threads, t))
           list == Append(threads, Len(objs))
       IN /\ threadObjs' = objs
          /\ threads' = list
          /\ SwitchTo(ThreadId(t), list, objs)
          /\ data' = [data EXCEPT !.threads = ThreadsSnapshot(list, objs)]
    /\ UNCHANGED <<started, apiKey, documents, streamingThreads, sends>>

\* a save awaiting loadData that will set the key `key` of the plugin data;
\* `listed` says that the rendered thread list still shows the thread `id`
\* that the saving handler removed
PendingSave(key, id, listed) ==
    [key |-> key, id |-> id, listed |-> listed, pc |-> "load",
     disk |-> [threads |-> <<>>, vectorIndex |-> <<>>]]

\* clearChat: empty the history of the current thread, save without awaiting,
\* empty the container, one system message, enable the input
ClearChat(t) ==
    /\ UNCHANGED <<readerVars, indexVars, remote, lookup, autoNamed, filterVars>>
    /\ IF GetCurrentThread = NoThread
       THEN /\ t = now
            /\ UNCHANGED <<now, threadObjs, saving>>
       ELSE /\ t \in ClockReadings
            /\ now' = t
            /\ threadObjs' = [threadObjs EXCEPT ![GetCurrentThread].history = <<>>,
                                                ![GetCurrentThread].updatedAt = t]
            /\ saving' = saving \cup {PendingSave("threads", "", FALSE)}
    /\ systemMessage' = "Chat history cleared. Ask me anything about your vault."
    /\ inputEnabled' = TRUE
    /\ UNCHANGED <<started, apiKey, documents, threads, currentThreadId, streamingThreads,
                   sends, data>>

\* renameThread up to its await of saveThreads
RenameThread(id, newName, t) ==
    /\ UNCHANGED <<readerVars, indexVars, remote, lookup, autoNamed, filterVars>>
    /\ FindThread(threads, threadObjs, id) # NoThread
    /\ t \in ClockReadings
    /\ now' = t
    /\ threadObjs' = [threadObjs EXCEPT ![FindThread(threads, threadObjs, id)].name = newName,
                                        ![FindThread(threads, threadObjs, id)].updatedAt = t]
    /\ saving' = saving \cup {PendingSave("threads", "", FALSE)}
    /\ UNCHANGED <<started, apiKey, documents, threads, currentThreadId, streamingThreads,
                   inputEnabled, systemMessage, sends, data>>

\* this.threads.filter(t => t.id !== threadId)
Without(list, objs, id) == SelectSeq(list, LAMBDA k : objs[k].id # id)

\* deleteThread up to its await of saveThreads: filter; if the current thread
\* went, switch to the first thread left or create a thread (createNewThread
\* saves the list it made). The list is rendered again by switchToThread, and
\* otherwise only after the save.
DeleteThread(id, t) ==
    /\ UNCHANGED <<readerVars, indexVars, remote, lookup, autoNamed, filterVars>>
    /\ \E k \in 1..Len(threads) : threadObjs[threads[k]].id = id
    /\ LET list == Without(threads, threadObjs, id) IN
       IF currentThreadId # id
       THEN /\ t = now
            /\ threads' = list
            /\ saving' = saving \cup {PendingSave("threads", id, TRUE)}
            /\ UNCHANGED <<now, threadObjs, currentThreadId, inputEnabled, systemMessage, data>>
       ELSE IF Len(list) > 0
       THEN /\ t = now
            /\ threads' = list
            /\ SwitchTo(threadObjs[list[1]].id, list, threadObjs)
            /\ saving' = saving \cup {PendingSave("threads", "", FALSE)}
            /\ UNCHANGED <<now, threadObjs, data>>
       ELSE /\ Len(threadObjs) < MaxThreads
            /\ t \in ClockReadings
            /\ now' = t
            /\ LET objs == Append(threadObjs, NewThread(list, t))
                   made == Append(list, Len(objs))
               IN /\ threadObjs' = objs
                  /\ threads' = made
                  /\ SwitchTo(ThreadId(t), made, objs)
                  /\ data' = [data EXCEPT !.threads = ThreadsSnapshot(made, objs)]
            /\ saving' = saving \cup {PendingSave("threads", "", FALSE)}
    /\ UNCHANGED <<started, apiKey, documents, streamingThreads, sends>>

\* a click on the item of a removed thread that the list still shows:
\* switchToThread with its id
SwitchToListed(s) ==
    /\ UNCHANGED <<readerVars, indexVars, serviceVars>>
    /\ s \in saving
    /\ s.listed
    /\ SwitchTo(s.id, threads, threadObjs)
    /\ UNCHANGED <<started, now, apiKey, documents, threadObjs, threads, streamingThreads,
                   sends, data>>

\* saveThreads from loadData to the end of saveData, no other save under way
SaveThreads(s) ==
    /\ s \in saving
    /\ s.pc = "load"
    /\ s.key = "threads"
    /\ data' = [data EXCEPT !.threads = ThreadsSnapshot(threads, threadObjs)]
    /\ saving' = saving \ {s}
    /\ UNCHANGED <<remote, lookup, autoNamed, filterVars>>
    /\ UNCHANGED <<now, apiKey, documents, threadObjs, threads, currentThreadId,
                   streamingThreads, inputEnabled, systemMessage, started, sends>>
    /\ UNCHANGED <<readerVars, indexVars>>

\* saveThreads: loadData resolved, data.threads = this.threads, saveData called
SaveThreadsLoaded(s) ==
    /\ s \in saving
    /\ s.pc = "load"
    /\ s.key = "threads"
    /\ saving' = (saving \ {s}) \cup
           {[s EXCEPT !.pc = "write",
                      !.disk = [threads |-> ThreadsSnapshot(threads, threadObjs),
                                vectorIndex |-> vectorIndex]]}
    /\ UNCHANGED <<remote, lookup, autoNamed, filterVars>>
    /\ UNCHANGED <<chatVars, readerVars, indexVars>>

\* saveData wrote the object; the handler goes on to renderThreadsList
SaveThreadsWritten(s) ==
    /\ s \in saving
    /\ s.pc = "write"
    /\ s.key = "threads"
    /\ data' = [data EXCEPT !.threads = s.disk.threads]
    /\ vectorIndex' = s.disk.vectorIndex
    /\ saving' = saving \ {s}
    /\ UNCHANGED <<remote, lookup, autoNamed, filterVars>>
    /\ UNCHANGED <<now, apiKey, documents, threadObjs, threads, currentThreadId,
                   streamingThreads, inputEnabled, systemMessage, started, sends>>
    /\ UNCHANGED <<vault, edits, isIndexing, indexingCancelled, indexCalls, jobs, upserts,
                   upsertCalls>>
    /\ UNCHANGED readerVars

\* onOpen: the welcome message, by getDocumentCount()
WelcomeMessage(docs) ==
    IF Len(docs) > 0
    THEN "Welcome to Aks Vault! " \o ToString(Len(docs))
         \o " documents loaded from previous index. Ask me anything about your vault."
    ELSE "Welcome to Aks Vault! Click \"Index Vault\" to get started, "
         \o "then ask me anything about your vault."

\* ------------------------------------------------------------ plugin
\* the vault when the plugin is loaded
InitialVault == [p \in {"a.md", "b.md", "c.md"} |->
                    IF p = "a.md" THEN "Aa" ELSE IF p = "b.md" THEN "zzzzzz" ELSE "Aa"]

\* ------------------------------------------------------------ shouldIndexFile
Separator == "/"
Backslash == "\\"

\* s.replace(/\\/g, '/')
RECURSIVE Normalize(_)
Normalize(s) ==
    IF s = "" THEN ""
    ELSE (IF SubSeq(s, 1, 1) = Backslash THEN Separator ELSE SubSeq(s, 1, 1))
         \o Normalize(SubSeq(s, 2, Len(s)))

\* s.includes(ch) for a single character
Includes(s, ch) == \E n \in 1..Len(s) : SubSeq(s, n, n) = ch

\* s.lastIndexOf('/'), counted from 0, and -1 when there is none
LastIndexOf(s, ch) ==
    IF Includes(s, ch)
    THEN (CHOOSE n \in 1..Len(s) :
              /\ SubSeq(s, n, n) = ch
              /\ \A m \in (n + 1)..Len(s) : SubSeq(s, m, m) # ch) - 1
    ELSE -1

\* s.substring(0, end): a negative end counts as 0
Substring0(s, end) == SubSeq(s, 1, IF end < 0 THEN 0 ELSE end)

\* the regular expression built from a glob: the characters of
\* [.+^${}()|[\]\\] are escaped and stand for themselves, * becomes .* and
\* ? becomes . ; every other character stands for itself
RegexToken(ch) ==
    IF ch = "*" THEN "any*" ELSE IF ch = "?" THEN "any" ELSE "char"

\* what . matches: any character but a line terminator
Dot1(ch) == ch # "\n" /\ ch # "\r"

\* new RegExp('^' + regexPattern + '$').test(s)
RECURSIVE RegexTest(_, _)
RegexTest(pattern, s) ==
    IF pattern = "" THEN s = ""
    ELSE LET ch   == SubSeq(pattern, 1, 1)
             rest == SubSeq(pattern, 2, Len(pattern))
         IN CASE RegexToken(ch) = "any*" ->
                     \/ RegexTest(rest, s)
                     \/ s # "" /\ Dot1(SubSeq(s, 1, 1))
                               /\ RegexTest(pattern, SubSeq(s, 2, Len(s)))
              [] RegexToken(ch) = "any" ->
                     s # "" /\ Dot1(SubSeq(s, 1, 1))
                            /\ RegexTest(rest, SubSeq(s, 2, Len(s)))
              [] OTHER ->
                     s # "" /\ SubSeq(s, 1, 1) = ch
                            /\ RegexTest(rest, SubSeq(s, 2, Len(s)))

\* a pattern without wildcards matches exactly, or as a suffix after '/'
MatchesPlain(path, pattern) ==
    path = pattern \/ EndsWith(path, Separator \o pattern)

\* matchesPattern
MatchesPattern(filePath, pattern) ==
    LET normalizedPath    == Normalize(filePath)
        normalizedPattern == Normalize(pattern)
    IN IF ~Includes(normalizedPattern, "*") /\ ~Includes(normalizedPattern, "?")
       THEN MatchesPlain(normalizedPath, normalizedPattern)
       ELSE RegexTest(normalizedPattern, normalizedPath)

\* a blacklist pattern matches the path
Blacklisted(settings, filePath) ==
    \E n \in 1..Len(settings.blacklistFiles) :
        MatchesPattern(filePath, settings.blacklistFiles[n])

\* the extension whitelist is non-empty and does not hold '.' + extension
ExtensionRefused(settings, extension) ==
    /\ Len(settings.whitelistExtensions) > 0
    /\ \A n \in 1..Len(settings.whitelistExtensions) :
           settings.whitelistExtensions[n] # "." \o extension

\* the file is in the folder or its subfolders
InFolder(filePath, folder) ==
    LET normalizedFolder == Normalize(folder)
        normalizedPath   == Normalize(filePath)
    IN \/ StartsWith(normalizedPath, normalizedFolder \o Separator)
       \/ StartsWith(normalizedPath, normalizedFolder \o Backslash)
       \/ normalizedFolder =
              Substring0(normalizedPath, LastIndexOf(normalizedPath, Separator))

\* the folder whitelist is non-empty and no folder of it holds the file
FolderRefused(settings, filePath) ==
    /\ Len(settings.whitelistFolders) > 0
    /\ \A n \in 1..Len(settings.whitelistFolders) :
           ~InFolder(filePath, settings.whitelistFolders[n])

\* the whitelists are asked before the blacklist
ShouldIndexFileWhitelistFirst(settings, filePath, extension) ==
    IF Len(settings.whitelistExtensions) > 0 \/ Len(settings.whitelistFolders) > 0
    THEN ~ExtensionRefused(settings, extension) /\ ~FolderRefused(settings, filePath)
    ELSE ~Blacklisted(settings, filePath)

\* shouldIndexFile
ShouldIndexFile(settings, filePath, extension) ==
    IF Blacklisted(settings, filePath) THEN FALSE
    ELSE IF ExtensionRefused(settings, extension) THEN FALSE
    ELSE IF FolderRefused(settings, filePath) THEN FALSE
    ELSE TRUE

\* DEFAULT_SETTINGS
DefaultFilters ==
    [whitelistFolders |-> <<>>, whitelistExtensions |-> <<".md">>, blacklistFiles |-> <<>>]

NoVerdict == [path |-> "", extension |-> "", index |-> TRUE]

\* the default filters, and shouldIndexFile not asked yet
FilterIdle ==
    /\ filterSettings = DefaultFilters
    /\ verdict = NoVerdict

\* the embedding endpoint is out of reach, no search and no save is under way
ServiceIdle ==
    /\ remote = FALSE
    /\ lookup = [pc |-> "idle"]
    /\ autoNamed = <<>>
    /\ saving = {}
    /\ FilterIdle

\* no indexing job has run since the plugin was loaded
IndexIdle ==
    /\ vault = InitialVault
    /\ edits = 0
    /\ isIndexing = FALSE
    /\ indexingCancelled = FALSE
    /\ indexCalls = 0
    /\ jobs = <<>>
    /\ upserts = {}
    /\ upsertCalls = 0
    /\ vectorIndex = documents

\* ------------------------------------------------------------ LLMService
MaxReads == 2        \* reader.read() calls that return a part of one body

\* payloads a server writes after "data: "
OpenAIDelta(text)  == "{\"choices\":[{\"delta\":{\"content\":\"" \o text \o "\"}}]}"
OpenAIRole         == "{\"choices\":[{\"delta\":{\"role\":\"assistant\"}}]}"
DoneMarker         == "[DONE]"
Truncated          == "{\"choices\":[{\"del"
ClaudeEvent(type, text) ==
    "{\"type\":\"" \o type \o "\",\"delta\":{\"text\":\"" \o text \o "\"}}"
ClaudeBare(type)   == "{\"type\":\"" \o type \o "\"}"

\* the records a script is made of
Delta(text)       == [kind |-> "delta", type |-> "", text |-> text]
Role              == [kind |-> "role", type |-> "", text |-> ""]
Done              == [kind |-> "done", type |-> "", text |-> ""]
Bad               == [kind |-> "malformed", type |-> "", text |-> ""]
Blank             == [kind |-> "blank", type |-> "", text |-> ""]
Event(type, text) == [kind |-> "event", type |-> type, text |-> text]
Bare(type)        == [kind |-> "bare", type |-> type, text |-> ""]
EventName(type)   == [kind |-> "name", type |-> type, text |-> ""]

\* the line of the body that carries a record
WireLine(rec) ==
    CASE rec.kind = "delta"     -> "data: " \o OpenAIDelta(rec.text)
      [] rec.kind = "role"      -> "data: " \o OpenAIRole
      [] rec.kind = "done"      -> "data: " \o DoneMarker
      [] rec.kind = "malformed" -> "data: " \o Truncated
      [] rec.kind = "blank"     -> ""
      [] rec.kind = "event"     -> "data: " \o ClaudeEvent(rec.type, rec.text)
      [] rec.kind = "bare"      -> "data: " \o ClaudeBare(rec.type)
      [] rec.kind = "name"      -> "event: " \o rec.type

\* the response body: every line terminated by a newline
Body(lines) == Concat([k \in 1..Len(lines) |-> WireLine(lines[k]) \o "\n"])

OpenAIScripts ==
    { <<Delta("Hi")>>,
      <<Role, Delta("Hi"), Delta("!")>>,
      <<Delta("Hi"), Blank, Done>>,
      <<Delta("Hi"), Done, Delta("!")>>,
      <<Delta("Hi"), Bad, Delta("!")>>,
      <<Delta(""), Delta("Hi")>> }

ClaudeScripts ==
    { <<Event("content_block_delta", "Hi")>>,
      <<Bare("message_start"), Event("content_block_delta", "Hi"),
        Event("content_block_delta", "!"), Bare("message_stop")>>,
      <<Event("content_block_delta", "Hi"), Event("message_delta", "zz")>>,
      <<Event("content_block_delta", ""), Event("content_block_delta", "Hi")>>,
      <<Event("content_block_delta", "Hi"), Bad, Event("content_block_delta", "!")>>,
      <<EventName("content_block_delta"), Event("content_block_delta", "Hi"), Done>> }

\* chunk.split('\n')
RECURSIVE Split(_)
Split(s) ==
    IF \E k \in 1..Len(s) : SubSeq(s, k, k) = "\n"
    THEN LET k == CHOOSE k \in 1..Len(s) :
                      /\ SubSeq(s, k, k) = "\n"
                      /\ \A j \in 1..(k - 1) : SubSeq(s, j, j) # "\n"
         IN <<SubSeq(s, 1, k - 1)>> \o Split(SubSeq(s, k + 1, Len(s)))
    ELSE <<s>>

\* a JSON string body without escapes
Plain(s) == \A k \in 1..Len(s) : SubSeq(s, k, k) \notin {"\"", "\\"}

Inner(s, open, close) == SubSeq(s, Len(open) + 1, Len(s) - Len(close))

Wrapped(s, open, close) ==
    /\ Len(s) >= Len(open) + Len(close)
    /\ StartsWith(s, open)
    /\ EndsWith(s, close)
    /\ Plain(Inner(s, open, close))

Invalid == [valid |-> FALSE, content |-> "", type |-> "", text |-> ""]

\* the rest of a payload after {"type":"<type>
ParseTyped(rest) ==
    IF \E k \in 1..Len(rest) : SubSeq(rest, k, k) = "\""
    THEN LET q == CHOOSE k \in 1..Len(rest) :
                      /\ SubSeq(rest, k, k) = "\""
                      /\ \A j \in 1..(k - 1) : SubSeq(rest, j, j) # "\""
             type == SubSeq(rest, 1, q - 1)
             tail == SubSeq(rest, q, Len(rest))
         IN IF ~Plain(type) THEN Invalid
            ELSE IF tail = "\"}"
            THEN [valid |-> TRUE, content |-> "", type |-> type, text |-> ""]
            ELSE IF Wrapped(tail, "\",\"delta\":{\"text\":\"", "\"}}")
            THEN [valid |-> TRUE, content |-> "", type |-> type,
                  text |-> Inner(tail, "\",\"delta\":{\"text\":\"", "\"}}")]
            ELSE Invalid
    ELSE Invalid

\* JSON.parse of the payloads servers write and on their fragments:
\* content is parsed.choices?.[0]?.delta?.content, type is parsed.type and
\* text is parsed.delta?.text, "" standing for undefined
JsonParse(payload) ==
    IF Wrapped(payload, "{\"choices\":[{\"delta\":{\"content\":\"", "\"}}]}")
    THEN [valid |-> TRUE, type |-> "", text |-> "",
          content |-> Inner(payload, "{\"choices\":[{\"delta\":{\"content\":\"", "\"}}]}")]
    ELSE IF payload = OpenAIRole
    THEN [valid |-> TRUE, content |-> "", type |-> "", text |-> ""]
    ELSE IF StartsWith(payload, "{\"type\":\"")
    THEN ParseTyped(Slice(payload, 9))
    ELSE Invalid

\* the text is accumulated but the sink is not called
EmitUnsunk(st, content) == [st EXCEPT !.fullText = @ \o content]

\* fullText += content; onChunk(content)
Emit(st, content) ==
    [st EXCEPT !.fullText = @ \o content, !.sink = Append(@, content)]

\* the exception of JSON.parse escapes the loop
Rethrow(st) == [st EXCEPT !.threw = TRUE]

\* catch (e) { /* Skip invalid JSON */ }
SkipInvalid(st) == st

\* every typed payload is taken for a delta
AnyDiscriminator(parsed) == parsed.type # ""

\* parsed.type === 'content_block_delta'
IsContentBlockDelta(parsed) == parsed.type = "content_block_delta"

\* body of the for loop of callOpenAIStreamWithHistory
OpenAILine(st, line) ==
    IF ~StartsWith(line, "data: ") THEN st
    ELSE LET payload == Slice(line, 6) IN
         IF payload = "[DONE]" THEN st
         ELSE LET parsed == JsonParse(payload) IN
              IF ~parsed.valid THEN SkipInvalid(st)
              ELSE IF parsed.content # "" THEN Emit(st, parsed.content)
              ELSE st

\* body of the for loop of callClaudeStreamWithHistory
ClaudeLine(st, line) ==
    IF ~StartsWith(line, "data: ") THEN st
    ELSE LET payload == Slice(line, 6)
             parsed == JsonParse(payload)
         IN IF ~parsed.valid THEN SkipInvalid(st)
            ELSE IF IsContentBlockDelta(parsed) /\ parsed.text # ""
            THEN Emit(st, parsed.text)
            ELSE st

\* for (const line of lines) { ... }; an escaping exception ends the loop
RECURSIVE ProcessLines(_, _, _)
ProcessLines(fmt, st, lines) ==
    IF lines = <<>> \/ st.threw THEN st
    ELSE ProcessLines(fmt,
                      IF fmt = "openai" THEN OpenAILine(st, Head(lines))
                                        ELSE ClaudeLine(st, Head(lines)),
                      Tail(lines))

\* one iteration of the while loop on the decoded chunk
ProcessChunk(fmt, st, chunk) == ProcessLines(fmt, st, Split(chunk))

\* reader.read() resolved with the next n characters of the body
Read(n) ==
    /\ readerPc = "reading"
    /\ wire # ""
    /\ n \in 1..Len(wire)
    /\ reads + 1 < MaxReads \/ n = Len(wire)
    /\ LET chunk == SubSeq(wire, 1, n)
           st == ProcessChunk(format,
                              [fullText |-> fullText, sink |-> sink, threw |-> FALSE],
                              chunk)
       IN /\ fullText' = st.fullText
          /\ sink' = st.sink
          /\ readerPc' = IF st.threw THEN "threw" ELSE "reading"
          /\ torn' = (torn \/ ~EndsWith(chunk, "\n"))
    /\ wire' = Slice(wire, n)
    /\ reads' = reads + 1
    /\ UNCHANGED <<format, script>>
    /\ UNCHANGED <<chatVars, indexVars, serviceVars>>

\* reader.read() resolved with done: releaseLock, return fullText
ReadDone ==
    /\ readerPc = "reading"
    /\ wire = ""
    /\ readerPc' = "returned"
    /\ UNCHANGED <<format, script, wire, fullText, sink, torn, reads>>
    /\ UNCHANGED <<chatVars, indexVars, serviceVars>>

\* no streaming call is running
ReaderIdle ==
    /\ format = "openai"
    /\ script = <<>>
    /\ wire = ""
    /\ fullText = ""
    /\ sink = <<>>
    /\ torn = FALSE
    /\ reads = 0
    /\ readerPc = "idle"

\* the chat view is not open
ChatClosed ==
    /\ now = 0
    /\ documents = <<>>
    /\ threadObjs = <<>>
    /\ threads = <<>>
    /\ currentThreadId = ""
    /\ streamingThreads = [k \in {} |-> FALSE]
    /\ inputEnabled = FALSE
    /\ systemMessage = ""
    /\ started = 0
    /\ sends = <<>>
    /\ data = [threads |-> <<>>]

\* a streaming call got a success response and starts reading its body
ReaderInit ==
    /\ ChatClosed
    /\ apiKey = TRUE
    /\ IndexIdle
    /\ ServiceIdle
    /\ format \in {"openai", "claude"}
    /\ script \in (IF format = "openai" THEN OpenAIScripts ELSE ClaudeScripts)
    /\ wire = Body(script)
    /\ fullText = ""
    /\ sink = <<>>
    /\ torn = FALSE
    /\ reads = 0
    /\ readerPc = "reading"

ReaderNext ==
    \/ \E n \in 1..Len(wire) : Read(n)
    \/ ReadDone

ReaderSpec == ReaderInit /\ [][ReaderNext]_vars

\* ------------------------------------------------------------ indexing
BatchSize  == 2      \* files per batch (batchSize, scaled down from 20)
MaxJobs    == 2      \* indexVaultFiles calls ever made
MaxEdits   == 1      \* modifications of vault files
MaxUpserts == 3      \* addDocument calls made from outside the indexing job

\* the files shouldIndexFile lets through, in getFiles() order
VaultPaths == <<"a.md", "b.md", "c.md">>

\* file contents
Contents == {"Aa", "BB", "zzzzzz"}

\* what the vault holds for a file that vault.read fails on
Unreadable == "?"

Base36Digits == "0123456789abcdefghijklmnopqrstuvwxyz"

RECURSIVE Base36(_)
Base36(n) ==
    IF n < 36 THEN SubSeq(Base36Digits, n + 1, n + 1)
    ELSE Base36(n \div 36) \o SubSeq(Base36Digits, (n % 36) + 1, (n % 36) + 1)

\* Number.prototype.toString(36)
ToString36(n) == IF n < 0 THEN "-" \o Base36(0 - n) ELSE Base36(n)

\* calculateFileHash
CalculateFileHash(content) == ToString36(ToInt32(HashLoop(<<0, 0>>, content)))

\* no stored document is ever taken as unchanged
NeverUnchanged(docs, path, hash) == FALSE

\* hasDocumentWithHash: documents.find(doc => doc.path === path), then its hash
HasDocumentWithHash(docs, path, hash) ==
    /\ \E k \in 1..Len(docs) : docs[k].path = path
    /\ LET k == CHOOSE k \in 1..Len(docs) :
                    /\ docs[k].path = path
                    /\ \A j \in 1..(k - 1) : docs[j].path # path
       IN docs[k].hash = hash

\* the push of addDocument without the filter
AddDocumentNoFilter(docs, path, content, summary, embedding, hash) ==
    Append(docs, [path |-> path, content |-> content, summary |-> summary,
                  embedding |-> embedding, hash |-> hash])

\* addDocument that starts the store anew with the one record
AddDocumentAlone(docs, path, content, summary, embedding, hash) ==
    <<[path |-> path, content |-> content, summary |-> summary,
       embedding |-> embedding, hash |-> hash]>>

\* the filter and the push of addDocument
AddDocument(docs, path, content, summary, embedding, hash) ==
    Append(SelectSeq(docs, LAMBDA doc : doc.path # path),
           [path |-> path, content |-> content, summary |-> summary,
            embedding |-> embedding, hash |-> hash])

\* the fallback keeps the whole text and adds no ellipsis
SummarizeNoCut(content, ok) ==
    IF ok THEN "summary of " \o content ELSE content

\* summarize: the answer of callLLM, or on its failure the truncated content
Summarize(content, ok) ==
    LET truncatedContent == IF Len(content) > 100000
                            THEN SubSeq(content, 1, 100000) \o "..." ELSE content
    IN IF ok THEN "summary of " \o truncatedContent
       ELSE SubSeq(truncatedContent, 1, IF Len(truncatedContent) < 500
                                        THEN Len(truncatedContent) ELSE 500) \o "..."

\* files.slice(i, i + batchSize), every item at its await of vault.read
Batch(files, i) ==
    [k \in 1..(IF Len(files) - i < BatchSize THEN Len(files) - i ELSE BatchSize) |->
        [path |-> files[i + k], pc |-> "read", content |-> "", hash |-> "",
         result |-> "pending"]]

\* the batch goes on as soon as one item has completed
SomeSettled(items) == \E k \in 1..Len(items) : items[k].pc = "done"

\* Promise.all(batchPromises) has resolved
AllSettled(items) == \A k \in 1..Len(items) : items[k].pc = "done"

\* a turn of the loop over the results that counts no failure
CountSuccessOnly(job, result) ==
    LET counted == IF result.success
                   THEN IF result.unchanged THEN [job EXCEPT !.unchanged = @ + 1]
                                            ELSE [job EXCEPT !.indexed = @ + 1]
                   ELSE job
    IN [counted EXCEPT !.progress =
           Append(@, counted.indexed + counted.skipped + counted.unchanged)]

\* one turn of the loop over the results: the counter of the result, then
\* progressCallback(indexed + skipped + unchanged, totalFiles, name)
Count(job, result) ==
    LET counted == IF result.success
                   THEN IF result.unchanged THEN [job EXCEPT !.unchanged = @ + 1]
                                            ELSE [job EXCEPT !.indexed = @ + 1]
                   ELSE [job EXCEPT !.skipped = @ + 1]
    IN [counted EXCEPT !.progress =
           Append(@, counted.indexed + counted.skipped + counted.unchanged)]

\* the object an item's promise resolved with
Result(item) ==
    [success |-> item.result \in {"indexed", "unchanged"},
     unchanged |-> item.result = "unchanged"]

RECURSIVE TallyFrom(_, _)
TallyFrom(job, k) ==
    IF k > Len(job.items) THEN job
    ELSE TallyFrom(Count(job, Result(job.items[k])), k + 1)

\* progress is reported once, after the whole batch
TallyPerBatch(job) ==
    LET counted == TallyFrom(job, 1) IN
    [counted EXCEPT !.progress =
        Append(job.progress, counted.indexed + counted.skipped + counted.unchanged)]

\* for (const result of results) { ... }
Tally(job) == TallyFrom(job, 1)

\* the error of an item escapes the item
ReadRejects(item) == [item EXCEPT !.pc = "done", !.result = "threw"]

\* catch (error) { return { success: false, file, error } }
ReadFailed(item) == [item EXCEPT !.pc = "done", !.result = "failed"]

\* the loop goes on whatever the cancellation flag says
LoopIgnoresCancel(job, i) == i < Len(job.files)

\* i < files.length, and no break on indexingCancelled
LoopContinues(job, i) == i < Len(job.files) /\ ~indexingCancelled

\* the index is saved after every job
SavesAlways(job) == TRUE

\* if (indexed > 0) await this.saveIndexData()
SavesIndex(job) == job.indexed > 0

\* indexVaultFiles up to the first await
IndexVaultFiles ==
    /\ ~isIndexing
    /\ indexCalls < MaxJobs
    /\ indexCalls' = indexCalls + 1
    /\ isIndexing' = TRUE
    /\ indexingCancelled' = FALSE
    /\ jobs' = Append(SelectSeq(jobs, LAMBDA job : job.pc # "returned"),
                      [pc |-> "batch", files |-> VaultPaths, i |-> 0,
                       items |-> Batch(VaultPaths, 0), indexed |-> 0,
                       skipped |-> 0, unchanged |-> 0, progress |-> <<>>,
                       summaries |-> 0])
    /\ UNCHANGED <<vault, edits, upserts, upsertCalls, vectorIndex>>
    /\ UNCHANGED <<chatVars, readerVars, serviceVars>>

\* indexVaultFiles called with no isIndexing test: a second job is started
IndexVaultFilesReentered ==
    /\ isIndexing
    /\ indexCalls < MaxJobs
    /\ indexCalls' = indexCalls + 1
    /\ isIndexing' = TRUE
    /\ indexingCancelled' = FALSE
    /\ jobs' = Append(SelectSeq(jobs, LAMBDA job : job.pc # "returned"),
                      [pc |-> "batch", files |-> VaultPaths, i |-> 0,
                       items |-> Batch(VaultPaths, 0), indexed |-> 0,
                       skipped |-> 0, unchanged |-> 0, progress |-> <<>>,
                       summaries |-> 0])
    /\ UNCHANGED <<vault, edits, upserts, upsertCalls, vectorIndex>>
    /\ UNCHANGED <<chatVars, readerVars, serviceVars>>

\* indexVaultFiles called while isIndexing is set: the log line and the return
IndexVaultFilesBusy ==
    /\ isIndexing
    /\ indexCalls < MaxJobs
    /\ indexCalls' = indexCalls + 1
    /\ UNCHANGED <<vault, edits, isIndexing, indexingCancelled, jobs, upserts, upsertCalls,
                   vectorIndex>>
    /\ UNCHANGED <<chatVars, readerVars, serviceVars>>

\* cancelIndexing
CancelIndexing ==
    /\ isIndexing
    /\ ~indexingCancelled
    /\ indexingCancelled' = TRUE
    /\ UNCHANGED <<vault, edits, indexCalls, isIndexing, jobs, upserts, upsertCalls, vectorIndex>>
    /\ UNCHANGED <<chatVars, readerVars, serviceVars>>

\* the user modifies a file of the vault, or makes it unreadable
EditFile(path, content) ==
    /\ edits < MaxEdits
    /\ vault[path] # content
    /\ vault' = [vault EXCEPT ![path] = content]
    /\ edits' = edits + 1
    /\ UNCHANGED <<indexCalls, isIndexing, indexingCancelled, jobs, upserts, upsertCalls, vectorIndex>>
    /\ UNCHANGED <<chatVars, readerVars, serviceVars>>

\* vault.read settled for item k of job j: on success the hash and the
\* unchanged test, on failure the catch of the item
ItemRead(j, k) ==
    /\ jobs[j].pc = "batch"
    /\ jobs[j].items[k].pc = "read"
    /\ LET item == jobs[j].items[k]
           content == vault[item.path]
           hash == CalculateFileHash(content)
       IN jobs' = [jobs EXCEPT ![j].items[k] =
              IF content = Unreadable THEN ReadFailed(item)
              ELSE IF HasDocumentWithHash(documents, item.path, hash)
              THEN [item EXCEPT !.pc = "done", !.result = "unchanged",
                                !.content = content, !.hash = hash]
              ELSE [item EXCEPT !.pc = "summarize", !.content = content, !.hash = hash]]
    /\ UNCHANGED <<vault, edits, indexCalls, isIndexing, indexingCancelled, upserts, upsertCalls,
                   vectorIndex>>
    /\ UNCHANGED <<chatVars, readerVars, serviceVars>>

\* summarize returned for item k of job j: callLLM throws when no API key is
\* configured and answers otherwise; addDocument is called and awaits
\* generateEmbedding
ItemSummarized(j, k) ==
    /\ jobs[j].pc = "batch"
    /\ jobs[j].items[k].pc = "summarize"
    /\ LET item == jobs[j].items[k] IN
       /\ jobs' = [jobs EXCEPT ![j].items[k].pc = "embed", ![j].summaries = @ + 1]
       /\ upserts' = upserts \cup
              {[path |-> item.path, content |-> item.content,
                summary |-> Summarize(item.content, apiKey), hash |-> item.hash,
                job |-> j, item |-> k]}
    /\ UNCHANGED <<vault, edits, indexCalls, isIndexing, indexingCancelled, upsertCalls, vectorIndex>>
    /\ UNCHANGED <<chatVars, readerVars, serviceVars>>

\* addDocument called by another caller than the indexing job
AddDocumentCall(path, content, summary) ==
    /\ upsertCalls < MaxUpserts
    /\ upsertCalls' = upsertCalls + 1
    /\ upserts' = upserts \cup
           {[path |-> path, content |-> content, summary |-> summary,
             hash |-> CalculateFileHash(content), job |-> 0, item |-> 0]}
    /\ UNCHANGED <<vault, edits, indexCalls, isIndexing, indexingCancelled, jobs, vectorIndex>>
    /\ UNCHANGED <<chatVars, readerVars, serviceVars>>

\* generateEmbedding settled for the call u: filter, push, return to the
\* caller; an error of generateEmbedding leaves the store alone and reaches the
\* catch of the item
AddDocumentDone(u) ==
    /\ u \in upserts
    /\ upserts' = upserts \ {u}
    /\ IF GenerateEmbedding(u.summary).ok
       THEN /\ documents' = AddDocument(documents, u.path, u.content, u.summary,
                                        GenerateEmbedding(u.summary).embedding, u.hash)
            /\ jobs' = IF u.job = 0 THEN jobs
                       ELSE [jobs EXCEPT ![u.job].items[u.item].pc = "done",
                                         ![u.job].items[u.item].result = "indexed"]
       ELSE /\ documents' = documents
            /\ jobs' = IF u.job = 0 THEN jobs
                       ELSE [jobs EXCEPT ![u.job].items[u.item] = ReadFailed(@)]
    /\ UNCHANGED <<vault, edits, indexCalls, isIndexing, indexingCancelled, upsertCalls, vectorIndex>>
    /\ UNCHANGED <<viewVars, readerVars, serviceVars>>

\* VectorService.clear
Clear ==
    /\ documents # <<>>
    /\ documents' = <<>>
    /\ UNCHANGED indexVars
    /\ UNCHANGED <<viewVars, readerVars, serviceVars>>

\* Promise.all settled for job j. Resolved: counters and progress, then the
\* next turn of the for loop or the end of the loop. Rejected: indexVaultFiles
\* rejects where it stands.
BatchDone(j) ==
    /\ jobs[j].pc = "batch"
    /\ AllSettled(jobs[j].items)
    /\ IF \E k \in 1..Len(jobs[j].items) : jobs[j].items[k].result = "threw"
       THEN /\ jobs' = [jobs EXCEPT ![j].pc = "threw"]
            /\ UNCHANGED isIndexing
       ELSE LET job == Tally(jobs[j])
                i == job.i + BatchSize
            IN IF LoopContinues(job, i)
               THEN /\ jobs' = [jobs EXCEPT ![j] =
                          [job EXCEPT !.i = i, !.items = Batch(job.files, i)]]
                    /\ UNCHANGED isIndexing
               ELSE /\ jobs' = [jobs EXCEPT ![j] =
                          [job EXCEPT !.i = i, !.items = <<>>,
                                      !.pc = IF SavesIndex(job) THEN "save" ELSE "returned"]]
                    /\ isIndexing' = FALSE
    /\ UNCHANGED <<vault, edits, indexCalls, indexingCancelled, upserts, upsertCalls, vectorIndex>>
    /\ UNCHANGED <<chatVars, readerVars, serviceVars>>

\* Promise.all resolved for job j and the progress callback raises in its call
\* for result n: the counters stand at n results, the error leaves the for
\* loop over the results and indexVaultFiles rejects where it stands, before
\* the assignment that follows the loop over the batches
BatchDoneCallbackThrows(j, n) ==
    /\ jobs[j].pc = "batch"
    /\ AllSettled(jobs[j].items)
    /\ \A k \in 1..Len(jobs[j].items) : jobs[j].items[k].result # "threw"
    /\ n \in 1..Len(jobs[j].items)
    /\ LET job == Tally([jobs[j] EXCEPT !.items = SubSeq(@, 1, n)])
       IN jobs' = [jobs EXCEPT ![j] = [job EXCEPT !.items = jobs[j].items, !.pc = "threw"]]
    /\ UNCHANGED <<vault, edits, indexCalls, isIndexing, indexingCancelled, upserts, upsertCalls,
                   vectorIndex>>
    /\ UNCHANGED <<chatVars, readerVars, serviceVars>>

\* saveIndexData completed for job j
SaveIndexData(j) ==
    /\ jobs[j].pc = "save"
    /\ vectorIndex' = documents
    /\ jobs' = [jobs EXCEPT ![j].pc = "returned"]
    /\ UNCHANGED <<vault, edits, indexCalls, isIndexing, indexingCancelled, upserts, upsertCalls>>
    /\ UNCHANGED <<chatVars, readerVars, serviceVars>>

\* saveIndexData of job j: loadData resolved, vectorService.save() returned the
\* documents, currentData.vectorIndex is set and saveData called
SaveIndexLoaded(j) ==
    /\ jobs[j].pc = "save"
    /\ jobs' = [jobs EXCEPT ![j].pc = "write"]
    /\ saving' = saving \cup
           {[key |-> "vectorIndex", id |-> "", listed |-> FALSE, pc |-> "write",
             disk |-> [threads |-> data.threads, vectorIndex |-> documents]]}
    /\ UNCHANGED <<vault, edits, indexCalls, isIndexing, indexingCancelled, upserts, upsertCalls,
                   vectorIndex>>
    /\ UNCHANGED <<remote, lookup, autoNamed, filterVars>>
    /\ UNCHANGED <<chatVars, readerVars>>

\* saveData of saveIndexData wrote the object; indexVaultFiles returns
SaveIndexWritten(s) ==
    /\ s \in saving
    /\ s.pc = "write"
    /\ s.key = "vectorIndex"
    /\ data' = [data EXCEPT !.threads = s.disk.threads]
    /\ vectorIndex' = s.disk.vectorIndex
    /\ saving' = saving \ {s}
    /\ jobs' = [j \in 1..Len(jobs) |->
                   IF jobs[j].pc = "write" THEN [jobs[j] EXCEPT !.pc = "returned"]
                   ELSE jobs[j]]
    /\ UNCHANGED <<vault, edits, indexCalls, isIndexing, indexingCancelled, upserts, upsertCalls>>
    /\ UNCHANGED <<remote, lookup, autoNamed, filterVars>>
    /\ UNCHANGED <<now, apiKey, documents, threadObjs, threads, currentThreadId,
                   streamingThreads, inputEnabled, systemMessage, started, sends>>
    /\ UNCHANGED readerVars

\* the plugin is loaded on an empty index, the chat view is closed
IndexInit ==
    /\ ChatClosed
    /\ apiKey \in BOOLEAN
    /\ ReaderIdle
    /\ IndexIdle
    /\ ServiceIdle

IndexNext ==
    \/ IndexVaultFiles
    \/ CancelIndexing
    \/ \E path \in DOMAIN vault : \E content \in Contents \cup {Unreadable} :
           EditFile(path, content)
    \/ \E j \in 1..Len(jobs) : \E k \in 1..Len(jobs[j].items) : ItemRead(j, k)
    \/ \E j \in 1..Len(jobs) : \E k \in 1..Len(jobs[j].items) : ItemSummarized(j, k)
    \/ \E u \in upserts : AddDocumentDone(u)
    \/ \E j \in 1..Len(jobs) : BatchDone(j)
    \/ \E j \in 1..Len(jobs) : SaveIndexData(j)

IndexSpec == IndexInit /\ [][IndexNext]_vars

\* the index command and the index button, used while a job may be running
BusyNext ==
    \/ IndexNext
    \/ IndexVaultFilesBusy

BusySpec == IndexInit /\ [][BusyNext]_vars

\* indexing with a progress callback that may raise
CallbackNext ==
    \/ IndexNext
    \/ IndexVaultFilesBusy
    \/ \E j \in 1..Len(jobs) : \E n \in 1..BatchSize : BatchDoneCallbackThrows(j, n)

CallbackSpec == IndexInit /\ [][CallbackNext]_vars

\* a record as addDocument stored it in an earlier session
Restored(path, content) ==
    [path |-> path, content |-> content, summary |-> Summarize(content, TRUE),
     embedding |-> GenerateSimpleEmbedding(Summarize(content, TRUE)),
     hash |-> CalculateFileHash(content)]

\* the indexes loadIndexData restores: a record of a file that is no longer a
\* candidate, alone or with a record of a.md whose content has changed since
RestoredIndexes ==
    {<<Restored("gone.md", "Aa")>>,
     <<Restored("a.md", "zzzzzz"), Restored("gone.md", "Aa")>>}

\* the plugin is loaded on a persisted index, the chat view is closed
RestoredInit ==
    /\ documents \in RestoredIndexes
    /\ now = 0
    /\ threadObjs = <<>>
    /\ threads = <<>>
    /\ currentThreadId = ""
    /\ streamingThreads = [k \in {} |-> FALSE]
    /\ inputEnabled = FALSE
    /\ systemMessage = ""
    /\ started = 0
    /\ sends = <<>>
    /\ data = [threads |-> <<>>]
    /\ apiKey \in BOOLEAN
    /\ ReaderIdle
    /\ IndexIdle
    /\ ServiceIdle

\* indexing jobs over a restored index
RestoredSpec == RestoredInit /\ [][IndexNext]_vars

\* the paths and texts callers upsert
StorePaths == {"a.md", "b.md"}
StoreTexts == {"Aa", "zzzzzz"}

StoreNext ==
    \/ \E path \in StorePaths : \E content \in StoreTexts : AddDocumentCall(path, content, "s")
    \/ \E u \in upserts : AddDocumentDone(u)
    \/ Clear

\* the Vector Store under direct upsert and clear calls
StoreSpec == IndexInit /\ [][StoreNext]_vars

\* ------------------------------------------------------------ retrieval
\* the queries and result sizes search is called with
Queries == {"q", "Aa"}
Sizes   == {1, TopK}

\* search up to its await of generateEmbedding; on an empty store it returns []
SearchCall(query, k) ==
    /\ lookup.pc # "embed"
    /\ lookup' = IF Len(documents) = 0
                 THEN [pc |-> "returned", query |-> query, k |-> k, results |-> <<>>]
                 ELSE [pc |-> "embed", query |-> query, k |-> k]
    /\ UNCHANGED <<remote, autoNamed, saving, filterVars>>
    /\ UNCHANGED <<chatVars, readerVars, indexVars>>

\* generateEmbedding settled for the query: the scores, the sort and the slice,
\* or the error of generateEmbedding or cosineSimilarity
SearchDone ==
    /\ lookup.pc = "embed"
    /\ lookup' = IF SearchThrows(documents, lookup.query)
                 THEN [pc |-> "threw", query |-> lookup.query, k |-> lookup.k]
                 ELSE [pc |-> "returned", query |-> lookup.query, k |-> lookup.k,
                       results |-> Search(documents, lookup.query, lookup.k)]
    /\ UNCHANGED <<remote, autoNamed, saving, filterVars>>
    /\ UNCHANGED <<chatVars, readerVars, indexVars>>

\* the embedding endpoint goes out of reach or comes back
RemoteFlips ==
    /\ remote' = ~remote
    /\ UNCHANGED <<lookup, autoNamed, saving, filterVars>>
    /\ UNCHANGED <<chatVars, readerVars, indexVars>>

\* the plugin is loaded on an empty index, with or without an API key, the
\* embedding endpoint in reach or not
EmbedInit ==
    /\ ChatClosed
    /\ apiKey \in BOOLEAN
    /\ ReaderIdle
    /\ IndexIdle
    /\ remote \in BOOLEAN
    /\ lookup = [pc |-> "idle"]
    /\ autoNamed = <<>>
    /\ saving = {}
    /\ FilterIdle

EmbedNext ==
    \/ IndexVaultFiles
    \/ \E j \in 1..Len(jobs) : \E k \in 1..Len(jobs[j].items) : ItemRead(j, k)
    \/ \E j \in 1..Len(jobs) : \E k \in 1..Len(jobs[j].items) : ItemSummarized(j, k)
    \/ \E u \in upserts : AddDocumentDone(u)
    \/ \E j \in 1..Len(jobs) : BatchDone(j)
    \/ \E j \in 1..Len(jobs) : SaveIndexData(j)
    \/ \E query \in Queries : \E k \in Sizes : SearchCall(query, k)
    \/ SearchDone
    \/ RemoteFlips

\* indexing and retrieval while the embedding endpoint comes and goes
EmbedSpec == EmbedInit /\ [][EmbedNext]_vars

\* ------------------------------------------------------------ indexing filters
\* the lists the settings tab can hold
BlacklistChoices ==
    {<<>>, <<"*.excalidraw.md">>, <<"README.md">>, <<"Private/*">>, <<"?.md">>,
     <<"Private\\x.md", "*.excalidraw.md">>}
ExtensionChoices == {<<>>, <<".md">>, <<".txt">>}
FolderChoices    == {<<>>, <<"Notes">>, <<"Notes", "Private">>}

\* the files of the vault, with TFile.extension
Candidates ==
    {[path |-> "Drawing.excalidraw.md", extension |-> "md"],
     [path |-> "Drawing.md", extension |-> "md"],
     [path |-> "a.md", extension |-> "md"],
     [path |-> "README.md", extension |-> "md"],
     [path |-> "Notes/README.md", extension |-> "md"],
     [path |-> "Notes/sub/b.txt", extension |-> "txt"],
     [path |-> "Private/x.md", extension |-> "md"],
     [path |-> "Notes/Drawing.excalidraw.md", extension |-> "md"]}

\* the plugin is loaded with the filters saved by the settings tab
FilterInit ==
    /\ ChatClosed
    /\ apiKey \in BOOLEAN
    /\ ReaderIdle
    /\ IndexIdle
    /\ remote = FALSE
    /\ lookup = [pc |-> "idle"]
    /\ autoNamed = <<>>
    /\ saving = {}
    /\ filterSettings \in [whitelistFolders : FolderChoices,
                           whitelistExtensions : ExtensionChoices,
                           blacklistFiles : BlacklistChoices]
    /\ verdict = NoVerdict

\* allFiles.filter(file => this.shouldIndexFile(file.path, file.extension)),
\* one file at a time
ShouldIndex(file) ==
    /\ verdict' = [path |-> file.path, extension |-> file.extension,
                   index |-> ShouldIndexFile(filterSettings, file.path, file.extension)]
    /\ UNCHANGED <<filterSettings, remote, lookup, autoNamed, saving>>
    /\ UNCHANGED <<chatVars, readerVars, indexVars>>

FilterNext == \E file \in Candidates : ShouldIndex(file)

\* shouldIndexFile asked for the files of a vault under every choice of filters
FilterSpec == FilterInit /\ [][FilterNext]_vars

\* ------------------------------------------------------------ specification
\* the view has been opened on empty plugin data: loadThreads created "Chat 1"
Init ==
    /\ now = 0
    /\ apiKey \in BOOLEAN
    /\ documents \in Stores
    /\ threadObjs = <<NewThread(<<>>, 0)>>
    /\ threads = <<1>>
    /\ currentThreadId = ThreadId(0)
    /\ streamingThreads = [k \in {} |-> FALSE]
    /\ inputEnabled = TRUE
    /\ systemMessage = WelcomeMessage(documents)
    /\ started = 0
    /\ sends = <<>>
    /\ data = [threads |-> <<NewThread(<<>>, 0)>>]
    /\ ReaderIdle
    /\ IndexIdle
    /\ ServiceIdle

Next ==
    \/ \E m \in Questions : SendStart(m)
    \/ \E i \in DOMAIN sends : SendSearchEmpty(i)
    \/ \E i \in DOMAIN sends : \E a \in Answers : SendSearchDone(i, a)
    \/ \E i \in DOMAIN sends : SendHttpError(i)
    \/ \E i \in DOMAIN sends : SendStreamError(i)
    \/ \E i \in DOMAIN sends : SendChunk(i)
    \/ \E i \in DOMAIN sends : \E t \in Instants : SendStreamEnd(i, t)
    \/ \E i \in DOMAIN sends : SendSaved(i)
    \/ \E k \in 1..Len(threads) : SwitchToThread(threadObjs[threads[k]].id)
    \/ \E t \in Instants : CreateNewThread(t)

Spec == Init /\ [][Next]_vars

\* ------------------------------------------------------------ thread registry
\* the names the rename dialog returns
ThreadNames == {"Chat 7"}

\* a thread saved by an earlier session
Stored(t, name, history) ==
    [id |-> ThreadId(t), name |-> name, history |-> history,
     createdAt |-> t, updatedAt |-> t, isStreaming |-> FALSE]

\* data.threads when the view is opened: nothing, or one thread with an exchange
StoredThreads ==
    {<<>>,
     <<Stored(0, "notes", PushExchange(<<>>, "q", "Hi"))>>}

\* [...this.threads].sort((a, b) => b.updatedAt - a.updatedAt)[0]
MostRecent(list) ==
    CHOOSE k \in 1..Len(list) :
        /\ \A j \in 1..Len(list) : list[j].updatedAt <= list[k].updatedAt
        /\ \A j \in 1..(k - 1) : list[j].updatedAt < list[k].updatedAt

\* the view after onOpen and loadThreads on the stored list: a default thread
\* when the list is empty, else the most recently updated thread is current
Loaded(list) ==
    /\ now = Len(list)
    /\ threadObjs = (IF list = <<>> THEN <<NewThread(<<>>, 0)>> ELSE list)
    /\ threads = [k \in 1..Len(threadObjs) |-> k]
    /\ currentThreadId = threadObjs[MostRecent(threadObjs)].id
    /\ data = [threads |-> threadObjs]
    /\ streamingThreads = [k \in {} |-> FALSE]
    /\ inputEnabled = TRUE
    /\ systemMessage = (IF list = <<>> THEN WelcomeMessage(documents) ELSE "")
    /\ started = 0
    /\ sends = <<>>

ThreadInit ==
    /\ apiKey = TRUE
    /\ documents \in Stores
    /\ \E list \in StoredThreads : Loaded(list)
    /\ ReaderIdle
    /\ IndexIdle
    /\ ServiceIdle

ThreadNext ==
    \/ \E k \in 1..Len(threads) : SwitchToThread(threadObjs[threads[k]].id)
    \/ \E t \in Instants : CreateNewThread(t)
    \/ \E k \in 1..Len(threads) : \E t \in Instants :
           DeleteThread(threadObjs[threads[k]].id, t)
    \/ \E s \in saving : SwitchToListed(s)
    \/ \E s \in saving : SaveThreads(s)

\* creations, switches and deletions on the threads of a view opened on stored
\* data
ThreadSpec == ThreadInit /\ [][ThreadNext]_vars

\* the view opened on empty plugin data, with or without an index
NamingInit ==
    /\ apiKey = TRUE
    /\ documents \in Stores
    /\ Loaded(<<>>)
    /\ ReaderIdle
    /\ IndexIdle
    /\ ServiceIdle

NamingNext ==
    \/ \E m \in Questions : SendStart(m)
    \/ \E i \in DOMAIN sends : SendSearchEmpty(i)
    \/ \E i \in DOMAIN sends : \E a \in Answers : SendSearchDone(i, a)
    \/ \E i \in DOMAIN sends : SendHttpError(i)
    \/ \E i \in DOMAIN sends : SendChunk(i)
    \/ \E i \in DOMAIN sends : \E t \in Instants : SendStreamEnd(i, t)
    \/ \E i \in DOMAIN sends : SendSaved(i)
    \/ \E t \in Instants : ClearChat(t)
    \/ \E k \in 1..Len(threads) : \E name \in ThreadNames : \E t \in Instants :
           RenameThread(threadObjs[threads[k]].id, name, t)
    \/ \E s \in saving : SaveThreads(s)

\* sends, clears and renames on the thread of a view
NamingSpec == NamingInit /\ [][NamingNext]_vars

\* the chat view with its Clear button
HistoryNext ==
    \/ Next
    \/ \E t \in Instants : ClearChat(t)
    \/ \E s \in saving : SaveThreads(s)

\* sends, failed sends, clears, thread creations and thread switches
HistorySpec == Init /\ [][HistoryNext]_vars

\* ------------------------------------------------------------ persistence
\* the view is open on empty plugin data and nothing is indexed
PersistInit ==
    /\ apiKey = TRUE
    /\ documents = <<>>
    /\ Loaded(<<>>)
    /\ ReaderIdle
    /\ IndexIdle
    /\ ServiceIdle

\* no saveThreads call is under way
NoThreadSave == \A s \in saving : s.key # "threads"

\* indexing jobs and renames, each save in its two steps; the user renames
\* only when the save of the last rename has finished
PersistNext ==
    \/ IndexVaultFiles
    \/ \E j \in 1..Len(jobs) : \E k \in 1..Len(jobs[j].items) : ItemRead(j, k)
    \/ \E j \in 1..Len(jobs) : \E k \in 1..Len(jobs[j].items) : ItemSummarized(j, k)
    \/ \E u \in upserts : AddDocumentDone(u)
    \/ \E j \in 1..Len(jobs) : BatchDone(j)
    \/ \E j \in 1..Len(jobs) : SaveIndexLoaded(j)
    \/ \E s \in saving : SaveIndexWritten(s)
    \/ NoThreadSave /\ \E name \in ThreadNames : \E t \in Instants :
           RenameThread(threadObjs[threads[1]].id, name, t)
    \/ \E s \in saving : SaveThreadsLoaded(s)
    \/ \E s \in saving : SaveThreadsWritten(s)

PersistSpec == PersistInit /\ [][PersistNext]_vars

\* the steps of the sendMessage call i that wait on the backend, the store or the disk
SendStep(i) ==
    /\ i \in DOMAIN sends
    /\ \/ SendSearchEmpty(i)
       \/ \E a \in Answers : SendSearchDone(i, a)
       \/ SendHttpError(i)
       \/ SendStreamError(i)
       \/ SendChunk(i)
       \/ \E t \in Instants : SendStreamEnd(i, t)
       \/ SendSaved(i)

\* every awaited call of a send completes or errors
FairSpec == Spec /\ \A i \in 1..MaxSends : WF_vars(SendStep(i))

\* ------------------------------------------------------------ chat claims
ThreadIds == {ThreadId(t) : t \in Instants}

Flag(id) == IsStreaming(streamingThreads, id)

\* the sends started / returned by the current step
Started  == (DOMAIN sends') \ (DOMAIN sends)
Returned == (DOMAIN sends) \ (DOMAIN sends')

\* C1: at most one request is in flight per thread - no two sendMessage calls
\* on the same thread have a completion request outstanding at the same time.
C1_OneRequestPerThread ==
    \A i, j \in DOMAIN sends :
        (i # j /\ sends[i].pc = "stream" /\ sends[j].pc = "stream")
            => sends[i].thread # sends[j].thread

\* a flag becomes set only in a step that starts a send on its thread
FlagSetOnlyByStart ==
    \A id \in ThreadIds :
        (~Flag(id) /\ IsStreaming(streamingThreads', id))
            => \E i \in Started : threadObjs[sends'[i].thread].id = id

\* a step in which a send returns leaves the flag of its thread cleared
FlagClearedOnReturn ==
    \A i \in Returned :
        /\ ~IsStreaming(streamingThreads', threadObjs[sends[i].thread].id)
        /\ ~threadObjs'[sends[i].thread].isStreaming

\* C2: every thread follows Idle -> Streaming -> Idle: a thread's streaming flag
\* becomes set only in a step that starts a send on that thread, every step in
\* which a send returns (success, empty retrieval, missing API key, HTTP error,
\* stream error) leaves the flag of its thread cleared, and a set flag is
\* eventually cleared when the awaited calls complete or error.
C2_FlagLifecycle ==
    /\ [][FlagSetOnlyByStart /\ FlagClearedOnReturn]_vars
    /\ \A id \in ThreadIds : Flag(id) ~> ~Flag(id)

\* a thread was Streaming and is Idle again, no send being left
C2_Witness ==
    /\ started > 0
    /\ DOMAIN sends = {}
    /\ ThreadId(0) \in DOMAIN streamingThreads
    /\ ~Flag(ThreadId(0))

\* the step in which the stream of send i ended normally
StreamEnded(i) ==
    /\ i \in DOMAIN sends /\ i \in DOMAIN sends'
    /\ sends[i].pc = "stream" /\ sends'[i].pc = "save"

\* the step in which send i failed after its request was submitted
RequestFailed(i) ==
    /\ i \in Returned
    /\ sends[i].pc = "stream"

IsExchange(before, after, message) ==
    /\ Len(after) = Len(before) + 2
    /\ SubSeq(after, 1, Len(before)) = before
    /\ after[Len(before) + 1] = [role |-> "user", content |-> message]
    /\ after[Len(before) + 2].role = "assistant"

\* the step that ends a stream appends the user and the assistant message
EndedSendAppendsExchange ==
    \A i \in DOMAIN sends : StreamEnded(i) =>
        IsExchange(threadObjs[sends[i].thread].history,
                   threadObjs'[sends[i].thread].history, sends[i].message)

\* no other step changes a history
HistoryGrowsOnlyByEndedSend ==
    \A o \in 1..Len(threadObjs) :
        threadObjs'[o].history # threadObjs[o].history =>
            \E i \in DOMAIN sends : StreamEnded(i) /\ sends[i].thread = o

\* C3: a send whose stream ended appends exactly two messages to the history
\* of its thread, the user message then the assistant message, and a history
\* grows in no other way; so two sequential sends grow it by four messages in
\* the order user, assistant, user, assistant.
C3_TwoMessagesPerSend ==
    [][EndedSendAppendsExchange /\ HistoryGrowsOnlyByEndedSend]_vars

\* two sends on the first thread have completed one after the other
C3_Witness ==
    /\ DOMAIN sends = {}
    /\ started = 2
    /\ Len(threadObjs[1].history) = 4
    /\ [k \in 1..4 |-> threadObjs[1].history[k].role]
           = <<"user", "assistant", "user", "assistant">>

\* ------------------------------------------------------------ parser claims
\* the fragment a record contributes when its line is parsed by format fmt
Fragment(fmt, rec) ==
    IF fmt = "openai" /\ rec.kind = "delta" THEN rec.text
    ELSE IF fmt = "claude" /\ rec.kind = "event" /\ rec.type = "content_block_delta"
    THEN rec.text
    ELSE ""

\* the non-empty fragments of a script, in line order
RECURSIVE Fragments(_, _)
Fragments(fmt, lines) ==
    IF lines = <<>> THEN <<>>
    ELSE (IF Fragment(fmt, Head(lines)) = "" THEN <<>> ELSE <<Fragment(fmt, Head(lines))>>)
         \o Fragments(fmt, Tail(lines))

\* the lines of a script before its first end-of-stream marker
RECURSIVE BeforeDone(_)
BeforeDone(lines) ==
    IF lines = <<>> \/ Head(lines).kind = "done" THEN <<>>
    ELSE <<Head(lines)>> \o BeforeDone(Tail(lines))

IsPrefix(a, b) == Len(a) <= Len(b) /\ SubSeq(b, 1, Len(a)) = a

\* the result of parsing the whole body as one chunk
OneShot(fmt, lines) ==
    ProcessChunk(fmt, [fullText |-> "", sink |-> <<>>, threw |-> FALSE], Body(lines))

\* C4: the Format-A parser returns the same text and passes the same fragments
\* to the sink for every way of cutting the body into reads as it does when the
\* body arrives in one read.
C4_CutIndependent ==
    (format = "openai" /\ readerPc = "returned") =>
        /\ fullText = OneShot("openai", script).fullText
        /\ sink = OneShot("openai", script).sink

\* C5: in Format A no data line after the line "data: [DONE]" contributes: with
\* every line delivered whole, the fragments passed to the sink are a prefix of
\* those of the lines before the marker.
C5_DoneEndsStream ==
    (format = "openai" /\ ~torn) =>
        IsPrefix(sink, Fragments("openai", BeforeDone(script)))

\* C6: in Format B a payload contributes text if and only if its type is
\* content_block_delta and its delta text is non-empty: every fragment passed to
\* the sink is the non-empty text of such a payload, and when every line was
\* delivered whole the sink holds exactly the texts of those payloads, in order;
\* payloads of any other type, with or without text, contribute nothing.
C6_ClaudeDiscriminator ==
    format = "claude" =>
        /\ \A k \in 1..Len(sink) : \E j \in 1..Len(script) :
               /\ script[j].kind = "event"
               /\ script[j].type = "content_block_delta"
               /\ script[j].text = sink[k]
               /\ sink[k] # ""
        /\ (readerPc = "returned" /\ ~torn) =>
               /\ sink = Fragments("claude", script)
               /\ fullText = Concat(Fragments("claude", script))

\* a body with a text-bearing payload of another type was read in two reads cut
\* at a line end; only the content_block_delta text arrived
C6_Witness ==
    /\ format = "claude"
    /\ readerPc = "returned"
    /\ reads = 2
    /\ ~torn
    /\ script = <<Event("content_block_delta", "Hi"), Event("message_delta", "zz")>>
    /\ sink = <<"Hi">>
    /\ fullText = "Hi"

\* C7: in both formats a data line whose payload is not valid JSON raises no
\* error and changes nothing: the read loop never ends by an exception, and with
\* every line delivered whole the well-formed payloads before and after the
\* malformed one still deliver their fragments.
C7_MalformedAbsorbed ==
    /\ readerPc # "threw"
    /\ (readerPc = "returned" /\ ~torn /\ \E j \in 1..Len(script) : script[j].kind = "malformed")
           => sink = Fragments(format, script)

\* a body with a malformed payload between two well-formed ones was read
C7_Witness ==
    /\ format = "openai"
    /\ readerPc = "returned"
    /\ ~torn
    /\ script = <<Delta("Hi"), Bad, Delta("!")>>
    /\ sink = <<"Hi", "!">>

\* C8: the text a streaming call returns is the concatenation, in order, of the
\* fragments it passed to the sink, each of them non-empty and passed once.
C8_ReturnedTextIsSinkConcat ==
    /\ fullText = Concat(sink)
    /\ \A k \in 1..Len(sink) : sink[k] # ""
    /\ (readerPc = "returned" /\ ~torn /\ \A j \in 1..Len(script) : script[j].kind # "done")
           => Len(sink) = Len(Fragments(format, script))

\* a call has returned after passing two fragments to the sink
C8_Witness ==
    /\ format = "claude"
    /\ readerPc = "returned"
    /\ Len(script) = 4
    /\ sink = <<"Hi", "!">>
    /\ fullText = "Hi!"

\* the Sources section for the retrieved documents, one line per document
SourcesSection(found) ==
    SourcesHeader \o Concat([k \in 1..Len(found) |-> "- [[" \o FileName(found[k].path) \o "]]\n"])

Last(seq) == seq[Len(seq)]

\* what a send whose stream has ended has rendered and recorded
RenderedAndRecorded ==
    \A i \in DOMAIN sends : sends[i].pc = "save" =>
        LET o == sends[i].thread
            found == Search(documents, sends[i].message, TopK)
            text == sends[i].fullText \o SourcesSection(found)
        IN /\ sends[i].rendered = text
           /\ \E k \in 1..Len(threadObjs[o].history) :
                  /\ threadObjs[o].history[k] = [role |-> "assistant", content |-> text]
                  /\ k > 1
                  /\ threadObjs[o].history[k - 1] = [role |-> "user", content |-> sends[i].message]

\* the assistant messages in persisted state
PersistedAnswers ==
    \A k \in 1..Len(data.threads) :
        LET history == data.threads[k].history IN
        \A m \in 1..Len(history) : history[m].role = "assistant" =>
            /\ m > 1
            /\ history[m - 1].role = "user"
            /\ \E answer \in Answers :
                   history[m].content = Concat(answer)
                       \o SourcesSection(Search(documents, history[m - 1].content, TopK))

\* C9: when the stream of a send has ended, the assistant message appended to
\* the history is the streamed answer followed by the Sources section listing
\* every retrieved document once, in retrieval order, by the name derived from
\* its path; the same text is rendered in the message element, and it is the
\* text written to persisted state when the save completes.
C9_AnswerWithSources == RenderedAndRecorded /\ PersistedAnswers

\* a successful send has been saved: the persisted thread ends with the answer
\* and the two sources in score order
C9_Witness ==
    /\ DOMAIN sends = {}
    /\ Len(data.threads) > 0
    /\ Len(data.threads[1].history) = 2
    /\ Last(data.threads[1].history).content
           = "Hi" \o SourcesHeader \o "- [[b.txt]]\n- [[a]]\n"
    /\ data.threads[1].history = threadObjs[1].history

\* C10: when the backend answers with a non-success status or the stream fails
\* while being read, the send shows an error message, leaves every history as
\* it was, returns without another request, and its thread's flag is cleared.
C10_FailedRequest ==
    [][\A i \in DOMAIN sends : RequestFailed(i) =>
          /\ StartsWith(systemMessage', "Error: ")
          /\ \A o \in 1..Len(threadObjs) : threadObjs'[o].history = threadObjs[o].history
          /\ sends[i].requests = 1
          /\ ~IsStreaming(streamingThreads', threadObjs[sends[i].thread].id)
          /\ ~threadObjs'[sends[i].thread].isStreaming
          /\ data' = data]_vars

\* a request has failed: the error is shown, nothing was recorded, thread Idle
C10_Witness ==
    /\ systemMessage = "Error: OpenAI API error: body"
    /\ DOMAIN sends = {}
    /\ started = 1
    /\ threadObjs[1].history = <<>>
    /\ ~Flag(ThreadId(0))

\* C11: with no API key configured a send fails as a configuration error before
\* any request is submitted: in the step in which it returns it has made no
\* request, the error is shown, every history is as it was and the flag of its
\* thread is released.
C11_ConfigurationError ==
    [][\A i \in Returned : ~apiKey =>
          /\ sends[i].requests = 0
          /\ StartsWith(systemMessage', "Error: API key not configured")
          /\ \A o \in 1..Len(threadObjs) : threadObjs'[o].history = threadObjs[o].history
          /\ ~IsStreaming(streamingThreads', threadObjs[sends[i].thread].id)]_vars

\* ------------------------------------------------------------ indexing claims
\* the jobs whose frame is the same call before and after the step
SameJobs == IF indexCalls' = indexCalls THEN 1..Len(jobs) ELSE {}

\* the step in which job j starts another batch
StartsBatch(j) ==
    /\ jobs[j].pc = "batch"
    /\ jobs'[j].pc = "batch"
    /\ jobs'[j].i # jobs[j].i

\* the step in which the loop of job j ends
EndsLoop(j) ==
    /\ jobs[j].pc = "batch"
    /\ jobs'[j].pc \in {"save", "returned"}

\* every item of the batch has completed with success, unchanged or failure
BatchCompleted(job) ==
    \A k \in 1..Len(job.items) :
        /\ job.items[k].pc = "done"
        /\ job.items[k].result \in {"indexed", "unchanged", "failed"}

Counted(job) == job.indexed + job.skipped + job.unchanged

Min(a, b) == IF a < b THEN a ELSE b

\* a batch starts only when the batch before it has completed
BarrierOnStart == \A j \in SameJobs : StartsBatch(j) => BatchCompleted(jobs[j])

\* the items at work belong to the one batch in flight, and no addDocument call
\* of an earlier batch is still waiting
OneBatchInFlight ==
    /\ \A j \in 1..Len(jobs) : jobs[j].pc = "batch" =>
           /\ Len(jobs[j].items) <= BatchSize
           /\ \A k \in 1..Len(jobs[j].items) :
                  jobs[j].items[k].path = jobs[j].files[jobs[j].i + k]
    /\ \A u \in upserts : u.job # 0 =>
           /\ jobs[u.job].pc = "batch"
           /\ u.item <= Len(jobs[u.job].items)
           /\ jobs[u.job].items[u.item].pc = "embed"
           /\ jobs[u.job].items[u.item].path = u.path

\* C12: a batch is a synchronization barrier: the step that starts the items of
\* the next batch is taken only when every item of the current batch has
\* completed (indexed, unchanged or failed), whatever the order in which they
\* completed, and the only items at work are those of the batch in flight.
C12_BatchBarrier == [][BarrierOnStart]_vars /\ []OneBatchInFlight

\* the second batch is in flight after the two items of the first were counted
C12_Witness ==
    /\ Len(jobs) = 1
    /\ jobs[1].pc = "batch"
    /\ jobs[1].i = BatchSize
    /\ Counted(jobs[1]) = BatchSize
    /\ jobs[1].indexed = 1
    /\ jobs[1].skipped = 1
    /\ jobs[1].items[1].pc = "summarize"

\* no batch is started once cancellation is requested
NoBatchAfterCancel == \A j \in SameJobs : StartsBatch(j) => ~indexingCancelled

\* when the loop ends every item of every batch that was started is counted
StartedBatchesCounted ==
    \A j \in SameJobs : EndsLoop(j) =>
        /\ BatchCompleted(jobs[j])
        /\ Counted(jobs'[j]) = Min(jobs[j].i + BatchSize, Len(jobs[j].files))
        /\ Counted(jobs'[j]) = Counted(jobs[j]) + Len(jobs[j].items)

\* a request made during a job stays in force until the job has left the loop
CancelSticks ==
    (indexingCancelled /\ ~indexingCancelled') => ~isIndexing

\* C13: cancellation is honoured only at batch boundaries: a cancellation
\* requested while a batch is in flight does not stop that batch - all its items
\* complete and are counted before the loop ends - and once it is requested the
\* job starts no further batch.
C13_CancelAtBatchBoundary ==
    [][NoBatchAfterCancel /\ StartedBatchesCounted /\ CancelSticks]_vars

\* a job cancelled during its first batch has returned with that batch counted
\* and the rest of the files untouched
C13_Witness ==
    /\ indexingCancelled
    /\ ~isIndexing
    /\ Len(jobs) = 1
    /\ jobs[1].pc \in {"save", "returned"}
    /\ Counted(jobs[1]) = BatchSize
    /\ BatchSize < Len(jobs[1].files)
    /\ jobs[1].indexed = BatchSize

\* the callback has been invoked once for every item of every batch that was
\* counted, with the values 1, 2, ... in this order
ProgressInOrder ==
    \A j \in 1..Len(jobs) :
        /\ Len(jobs[j].progress) = Min(jobs[j].i, Len(jobs[j].files))
        /\ Len(jobs[j].progress) = Counted(jobs[j])
        /\ \A n \in 1..Len(jobs[j].progress) : jobs[j].progress[n] = n

\* every value is the sum of the three counters when it is reported: the values
\* of one batch continue the count reached before the batch
ProgressFollowsCounters ==
    \A j \in SameJobs :
        /\ Len(jobs'[j].progress) = Counted(jobs'[j])
        /\ \A n \in (Len(jobs[j].progress) + 1)..Len(jobs'[j].progress) :
               jobs'[j].progress[n] = Counted(jobs[j]) + (n - Len(jobs[j].progress))

\* a job that leaves the loop without a cancellation request has reported totalFiles last
LastIsTotal ==
    \A j \in SameJobs : (EndsLoop(j) /\ ~indexingCancelled) =>
        jobs'[j].progress[Len(jobs'[j].progress)] = Len(jobs[j].files)

\* C14: during one indexing job the progress callback is invoked exactly once
\* for every processed item, the completedCount values are 1, 2, ..., n without
\* gap or repeat, each the sum indexed + skipped + unchanged at that moment, and
\* the last value of a job that was not cancelled is totalCount.
C14_ProgressPerItem ==
    []ProgressInOrder /\ [][ProgressFollowsCounters /\ LastIsTotal]_vars

\* a job over three files, one of them unreadable and two unchanged, has
\* reported 1, 2, 3 and was not cancelled
C14_Witness ==
    /\ ~indexingCancelled
    /\ ~isIndexing
    /\ Len(jobs) = 1
    /\ jobs[1].pc = "returned"
    /\ jobs[1].progress = <<1, 2, 3>>
    /\ jobs[1].skipped = 1
    /\ jobs[1].unchanged = 2

\* no item and no call of indexVaultFiles ends with an error
NoErrorEscapes ==
    \A j \in 1..Len(jobs) :
        /\ jobs[j].pc # "threw"
        /\ \A k \in 1..Len(jobs[j].items) : jobs[j].items[k].result # "threw"

\* the step in which the read of an unreadable file settles for item k of job j
ReadFails(j, k) ==
    /\ jobs[j].pc = "batch"
    /\ k <= Len(jobs'[j].items)
    /\ jobs[j].items[k].pc = "read"
    /\ vault[jobs[j].items[k].path] = Unreadable
    /\ jobs'[j].items[k] # jobs[j].items[k]

\* the failure completes its own item and touches nothing else
FailureStaysInItem ==
    \A j \in SameJobs : \A k \in 1..Len(jobs[j].items) : ReadFails(j, k) =>
        /\ jobs'[j].items[k].pc = "done"
        /\ jobs'[j].items[k].result = "failed"
        /\ \A o \in 1..Len(jobs[j].items) : o # k => jobs'[j].items[o] = jobs[j].items[o]
        /\ jobs'[j].pc = "batch"
        /\ documents' = documents
        /\ isIndexing' = isIndexing

\* the items of the batch that failed
Failed(job) == {k \in 1..Len(job.items) : job.items[k].result = "failed"}

\* the step in which the results of the batch of job j are counted
CountsBatch(j) == jobs[j].pc = "batch" /\ jobs'[j].progress # jobs[j].progress

\* the failed items are counted as skipped, every item of the batch is counted,
\* and the loop goes on as if no item had failed
FailureIsSkipped ==
    \A j \in SameJobs : CountsBatch(j) =>
        /\ jobs'[j].skipped = jobs[j].skipped + Cardinality(Failed(jobs[j]))
        /\ Counted(jobs'[j]) = Counted(jobs[j]) + Len(jobs[j].items)
        /\ (jobs[j].i + BatchSize < Len(jobs[j].files) /\ ~indexingCancelled)
               => StartsBatch(j)
        /\ jobs'[j].pc \in {"batch", "save", "returned"}

\* C15: a failure while reading one document is caught inside that item: the
\* item is counted as skipped, the other items of the batch and the later
\* batches are still processed, and the call of indexVaultFiles ends without
\* an error.
C15_ReadFailureIsolated ==
    []NoErrorEscapes /\ [][FailureStaysInItem /\ FailureIsSkipped]_vars

\* the first file was unreadable: the job has returned with it skipped and the
\* two others, one of the same batch and one of the next, indexed
C15_Witness ==
    /\ vault["a.md"] = Unreadable
    /\ Len(jobs) = 1
    /\ jobs[1].pc = "returned"
    /\ ~isIndexing
    /\ jobs[1].skipped = 1
    /\ jobs[1].indexed = 2
    /\ Len(documents) = 2
    /\ \A k \in 1..Len(documents) : documents[k].path # "a.md"

\* C16 (as stated): a document whose summarization fails is counted as skipped,
\* not as indexed, and no record for it is written to the Vector Store. Without
\* an API key callLLM throws for every document, so no job counts a document as
\* indexed and the store stays empty.
C16_SummarizeFailureSkips ==
    ~apiKey => /\ documents = <<>>
               /\ \A j \in 1..Len(jobs) : jobs[j].indexed = 0

\* what summarize returns when callLLM has thrown
FallbackSummary(content) ==
    SubSeq(content, 1, Min(Len(content), 500)) \o "..."

\* the items of the batch in flight whose summarization was requested
Summarized(job) ==
    {k \in 1..Len(job.items) :
        job.items[k].pc = "embed" \/ job.items[k].result = "indexed"}

\* every document summarize was called for is counted as indexed or on its way to be
SummarizedAreIndexed ==
    \A j \in 1..Len(jobs) :
        jobs[j].summaries = jobs[j].indexed + Cardinality(Summarized(jobs[j]))

\* the records written carry the fallback summary, and every item that
\* completed as indexed has its record in the store
FallbackRecords ==
    /\ \A k \in 1..Len(documents) :
           documents[k].summary = FallbackSummary(documents[k].content)
    /\ \A j \in 1..Len(jobs) : \A k \in 1..Len(jobs[j].items) :
           jobs[j].items[k].result = "indexed" =>
               \E d \in 1..Len(documents) :
                   /\ documents[d].path = jobs[j].items[k].path
                   /\ documents[d].content = jobs[j].items[k].content
                   /\ documents[d].hash = jobs[j].items[k].hash

\* no item fails on its summarization, and only failures are counted as skipped
OnlyFailuresSkipped ==
    \A j \in SameJobs : CountsBatch(j) =>
        /\ jobs'[j].skipped = jobs[j].skipped + Cardinality(Failed(jobs[j]))
        /\ jobs'[j].indexed = jobs[j].indexed + Cardinality(Summarized(jobs[j]))
        /\ \A k \in Failed(jobs[j]) : jobs[j].items[k].hash = ""

\* C16 (amended): a failure of the summarization is absorbed by summarize, which
\* returns the first 500 characters of the content followed by "...": the
\* document is counted as indexed, not as skipped, and its record is written
\* to the Vector Store with that summary.
C16_SummarizeFailureIndexes ==
    /\ [](~apiKey => SummarizedAreIndexed /\ FallbackRecords)
    /\ [][~apiKey => OnlyFailuresSkipped]_vars

\* without an API key a job has indexed the three files, none skipped, and the
\* record of a.md carries the cut content as its summary
C16_Witness ==
    /\ ~apiKey
    /\ Len(jobs) = 1
    /\ jobs[1].pc = "returned"
    /\ jobs[1].indexed = 3
    /\ jobs[1].skipped = 0
    /\ jobs[1].summaries = 3
    /\ Len(documents) = 3
    /\ \E k \in 1..Len(documents) :
           documents[k].path = "a.md" /\ documents[k].summary = "Aa..."

\* the job that leaves the loop goes on to saveIndexData exactly when it has
\* indexed a document
SavesIffIndexed ==
    \A j \in SameJobs : EndsLoop(j) =>
        (jobs'[j].pc = "save" <=> jobs'[j].indexed > 0)

\* the step in which saveIndexData of job j has written the plugin data
Persists(j) == jobs[j].pc = "save" /\ jobs'[j].pc = "returned"

\* the persisted index changes only by the save of a job that indexed a
\* document, and the save writes the documents of the Vector Store
PersistedBySave ==
    /\ \A j \in SameJobs : Persists(j) =>
           jobs[j].indexed > 0 /\ vectorIndex' = documents
    /\ vectorIndex' # vectorIndex => \E j \in SameJobs : Persists(j)

StoredSame(path, content) ==
    \E d \in 1..Len(documents) :
        documents[d].path = path /\ documents[d].content = content

\* the step in which the read of item k of job j settles
ReadSettles(j, k) ==
    /\ jobs[j].pc = "batch"
    /\ k <= Len(jobs'[j].items)
    /\ jobs[j].items[k].pc = "read"
    /\ jobs'[j].items[k] # jobs[j].items[k]

\* a file read with the content its record holds completes as unchanged, with
\* no summarization, no embedding and no change of the store
SameContentUnchanged ==
    \A j \in SameJobs : \A k \in 1..Len(jobs[j].items) :
        (ReadSettles(j, k) /\ StoredSame(jobs[j].items[k].path, vault[jobs[j].items[k].path])) =>
            /\ jobs'[j].items[k].pc = "done"
            /\ jobs'[j].items[k].result = "unchanged"
            /\ jobs'[j].summaries = jobs[j].summaries
            /\ upserts' = upserts
            /\ documents' = documents

\* no summarization and no embedding is at work for a content that is stored
NoNeedlessWork ==
    /\ \A j \in 1..Len(jobs) : \A k \in 1..Len(jobs[j].items) :
           jobs[j].items[k].pc \in {"summarize", "embed"} =>
               ~StoredSame(jobs[j].items[k].path, jobs[j].items[k].content)
    /\ \A u \in upserts : ~StoredSame(u.path, u.content)

\* the store changes only where an embedding was requested
StoreChangesByUpsert ==
    documents' # documents => \E u \in upserts : u \notin upserts'

\* a job that found every file unchanged has requested no summary and counted
\* no file as indexed
AllUnchanged ==
    \A j \in 1..Len(jobs) :
        (jobs[j].pc \in {"save", "returned"} /\ jobs[j].unchanged = Len(jobs[j].files)) =>
            /\ jobs[j].indexed = 0
            /\ jobs[j].summaries = 0
            /\ jobs[j].pc = "returned"

\* C18: re-indexing is idempotent on unchanged content: a document that an
\* earlier job indexed and whose content is identical is counted as unchanged,
\* never as indexed, no summarization or embedding is requested for it, and the
\* Vector Store is the same before and after.
C18_ReindexIdempotent ==
    /\ [](NoNeedlessWork /\ AllUnchanged)
    /\ [][SameContentUnchanged /\ StoreChangesByUpsert]_vars

\* a second job over the three files the first one indexed and persisted, none
\* of them modified, has returned: three unchanged, none indexed, no summary
\* requested, and the store is still the one the first job persisted
C18_Witness ==
    /\ indexCalls = 2
    /\ edits = 0
    /\ ~isIndexing
    /\ \A j \in 1..Len(jobs) : jobs[j].pc = "returned"
    /\ jobs[Len(jobs)].unchanged = 3
    /\ jobs[Len(jobs)].indexed = 0
    /\ jobs[Len(jobs)].summaries = 0
    /\ upserts = {}
    /\ Len(documents) = 3
    /\ vectorIndex = documents

\* C19 (as stated): any two documents with distinct content have different
\* content hashes.
C19_DistinctHashes ==
    \A d \in 1..Len(documents) : \A e \in 1..Len(documents) :
        documents[d].content # documents[e].content =>
            documents[d].hash # documents[e].hash

\* the hashes of the file contents: 31 * 65 + 97 = 31 * 66 + 66 = 2112, and the
\* sum for "zzzzzz" wraps to -685785664
ExpectedHash(content) ==
    CASE content = "Aa" -> "1mo"
      [] content = "BB" -> "1mo"
      [] content = "zzzzzz" -> "-bcarls"

\* the hashes an item or a record carries
HashedPairs ==
    {<<documents[d].content, documents[d].hash>> : d \in 1..Len(documents)}
    \cup UNION {{<<jobs[j].items[k].content, jobs[j].items[k].hash>> :
                    k \in {n \in 1..Len(jobs[j].items) : jobs[j].items[n].hash # ""}} :
                j \in 1..Len(jobs)}

\* C19 (amended): the content hash is a function of the content alone - the
\* base-36 rendering of the signed 32-bit value of 31 * h + charCode taken over
\* the characters - so documents with identical content have identical hashes
\* and documents whose hashes differ have distinct content; documents with
\* distinct content may share a hash, as "Aa" and "BB" do.
C19_HashOfContent ==
    /\ \A p \in HashedPairs : p[2] = ExpectedHash(p[1])
    /\ \A p \in HashedPairs : \A q \in HashedPairs :
           /\ p[1] = q[1] => p[2] = q[2]
           /\ p[2] # q[2] => p[1] # q[1]

\* the store holds two records of distinct content and one hash, and a record
\* whose hash went through the 32-bit wrap
C19_Witness ==
    /\ \E d \in 1..Len(documents) : \E e \in 1..Len(documents) :
           /\ documents[d].content = "Aa"
           /\ documents[e].content = "BB"
           /\ documents[d].hash = documents[e].hash
    /\ \E d \in 1..Len(documents) :
           documents[d].content = "zzzzzz" /\ documents[d].hash = "-bcarls"

\* ------------------------------------------------------------ store claims
\* at most one record per path
OnePerPath ==
    \A d \in 1..Len(documents) : \A e \in 1..Len(documents) :
        documents[d].path = documents[e].path => d = e

\* the records of the store kept for the paths other than path, in order
Others(docs, path) == SelectSeq(docs, LAMBDA doc : doc.path # path)

\* the records of the store kept for path
Records(docs, path) == SelectSeq(docs, LAMBDA doc : doc.path = path)

\* the step in which the addDocument call u completes
Upserted(u) == u \in upserts /\ u \notin upserts'

\* a completed upsert leaves one record for its path, carrying its text, summary
\* and hash, and leaves the records of the other paths as they were
UpsertReplaces ==
    \A u \in upserts : Upserted(u) =>
        /\ Len(Records(documents', u.path)) = 1
        /\ Records(documents', u.path)[1].content = u.content
        /\ Records(documents', u.path)[1].summary = u.summary
        /\ Records(documents', u.path)[1].hash = u.hash
        /\ Others(documents', u.path) = Others(documents, u.path)

\* C20: the Vector Store holds at most one Document per path after any sequence
\* of upsert and clear operations, upserts whose embedding computations overlap
\* included, and an upsert for a path that has a record leaves exactly one
\* record for that path, with the text, summary and hash of that upsert.
C20_OneDocumentPerPath ==
    []OnePerPath /\ [][UpsertReplaces]_vars

\* three upserts have completed, the last one for a path that had a record with
\* another text: the store holds one record for each of the two paths
C20_Witness ==
    /\ upsertCalls = 3
    /\ upserts = {}
    /\ Len(documents) = 2
    /\ documents[1].path = "b.md"
    /\ documents[2].path = "a.md"
    /\ documents[2].content = "zzzzzz"
    /\ documents[2].hash = "-bcarls"

\* ------------------------------------------------------------ C21
\* the score search gives document i of the store for the query of the lookup
ScoreOf(query, i) ==
    CosineSimilarity(GenerateEmbedding(query).embedding, documents[i].embedding)

\* the list is ordered by non-increasing score
Descending(results) ==
    \A i, j \in 1..Len(results) : i < j => ~Greater(results[j].score, results[i].score)

\* the list holds distinct paths of the store
DistinctStored(results) ==
    /\ \A i, j \in 1..Len(results) : results[i].path = results[j].path => i = j
    /\ \A i \in 1..Len(results) : \E d \in 1..Len(documents) : documents[d].path = results[i].path

\* no document left out of the list scores higher than a document in it
NoneBetterLeftOut(query, results) ==
    \A d \in 1..Len(documents) :
        (\A i \in 1..Len(results) : results[i].path # documents[d].path) =>
            \A i \in 1..Len(results) : ~Greater(ScoreOf(query, d), results[i].score)

\* the lookup ends in this step
LookupEnds == lookup' # lookup /\ lookup'.pc # "embed"

\* C21: a search never raises; on the empty store it returns the empty list and
\* on a store of n documents exactly min(k, n) results, with distinct stored
\* paths, in non-increasing score, no left-out document scoring higher
C21_SearchResults ==
    [][LookupEnds =>
          /\ lookup'.pc = "returned"
          /\ Len(lookup'.results) = Min(lookup'.k, Len(documents))
          /\ DistinctStored(lookup'.results)
          /\ Descending(lookup'.results)
          /\ NoneBetterLeftOut(lookup'.query, lookup'.results)]_vars

\* what holds of the searches that do return
C21_ReturnedResults ==
    [][LookupEnds /\ lookup'.pc = "returned" =>
          /\ Len(lookup'.results) = Min(lookup'.k, Len(documents))
          /\ DistinctStored(lookup'.results)
          /\ Descending(lookup'.results)
          /\ NoneBetterLeftOut(lookup'.query, lookup'.results)]_vars

\* ------------------------------------------------------------ C22
\* generateEmbedding resolves for the text, and with the local vector of 300
\* entries when the remote call is made and fails
FallsBack(text) ==
    /\ GenerateEmbedding(text).ok
    /\ (Provider = "openai" /\ apiKey /\ ~GenerateOpenAIEmbedding(text).ok) =>
           /\ GenerateEmbedding(text).embedding = GenerateSimpleEmbedding(text)
           /\ GenerateEmbedding(text).embedding.length = LocalDim

\* C22: embedding a text never fails: when the remote call fails the provider
\* returns the local fallback vector of dimension 300 and no error reaches the
\* caller, neither addDocument and its indexing item nor search
C22_EmbedNeverFails ==
    /\ \A u \in upserts : FallsBack(u.summary)
    /\ lookup.pc = "embed" => FallsBack(lookup.query)
    /\ \A j \in 1..Len(jobs) : \A k \in 1..Len(jobs[j].items) :
           jobs[j].items[k].result # "failed"

\* a document was stored with the fallback vector although a key is configured
C22_Witness ==
    /\ apiKey
    /\ ~remote
    /\ \E i \in 1..Len(documents) :
           documents[i].embedding = GenerateSimpleEmbedding(documents[i].summary)

\* ------------------------------------------------------------ C23
\* C23: retrieval stays functional when the embedding backend is unavailable:
\* on a non-empty store, whatever strategy produced the stored vectors, a
\* search completing while the remote call fails returns a list and no error
C23_SearchWhileRemoteFails ==
    [][(LookupEnds /\ Len(documents) > 0 /\ ~remote) => lookup'.pc = "returned"]_vars

\* ------------------------------------------------------------ C24
\* C24: in every reachable state all vectors of the store share one dimension
\* and one strategy, also after an indexing job in which the remote call
\* succeeded for some documents and failed for others
C24_OneDimension ==
    \A i, j \in 1..Len(documents) :
        documents[i].embedding.length = documents[j].embedding.length

\* ------------------------------------------------------------ C25
\* the pairs <<path, pattern>> of the candidates and blacklist patterns in which
\* the pattern matches the path: exactly, as a suffix after a separator, or as
\* an anchored glob
Matching ==
    {<<"Drawing.excalidraw.md", "*.excalidraw.md">>,
     <<"Notes/Drawing.excalidraw.md", "*.excalidraw.md">>,
     <<"README.md", "README.md">>,
     <<"Notes/README.md", "README.md">>,
     <<"Private/x.md", "Private/*">>,
     <<"Private/x.md", "Private\\x.md">>,
     <<"a.md", "?.md">>}

\* a blacklist pattern of the settings matches the candidate of the verdict
OnBlacklist ==
    \E n \in 1..Len(filterSettings.blacklistFiles) :
        <<verdict.path, filterSettings.blacklistFiles[n]>> \in Matching

\* C25: the blacklist is applied first and unconditionally: a candidate matching
\* a blacklist pattern is excluded whatever the whitelists hold, and a candidate
\* matching none is not excluded by the blacklist (*.excalidraw.md excludes
\* Drawing.excalidraw.md but not Drawing.md)
C25_BlacklistFirst ==
    verdict # NoVerdict =>
        /\ OnBlacklist => ~verdict.index
        /\ ~OnBlacklist =>
               verdict.index =
                   ShouldIndexFile([filterSettings EXCEPT !.blacklistFiles = <<>>],
                                   verdict.path, verdict.extension)
        /\ (filterSettings.blacklistFiles = <<"*.excalidraw.md">>
            /\ filterSettings.whitelistExtensions = <<".md">>
            /\ filterSettings.whitelistFolders = <<>>) =>
               /\ verdict.path = "Drawing.excalidraw.md" => ~verdict.index
               /\ verdict.path = "Drawing.md" => verdict.index

\* Drawing.excalidraw.md was refused although both whitelists let it through
C25_Witness ==
    /\ verdict.path = "Drawing.excalidraw.md"
    /\ ~verdict.index
    /\ filterSettings.blacklistFiles = <<"*.excalidraw.md">>
    /\ filterSettings.whitelistExtensions = <<".md">>
    /\ filterSettings.whitelistFolders = <<>>

\* ------------------------------------------------------------ C26
\* C26: auto-naming happens at most once per thread: over any sequence of
\* sends, clears and renames the name of a thread is replaced by text derived
\* from a user message at most one time
C26_NamedOnce == \A t \in DOMAIN autoNamed : autoNamed[t] <= 1

\* ------------------------------------------------------------ C27
\* C27: after any sequence of load, create, switch and delete operations the
\* registry holds at least one thread and the active thread id refers to a
\* thread of the registry
C27_ActiveThreadExists ==
    /\ Len(threads) >= 1
    /\ GetCurrentThread # NoThread

\* a thread leaves the registry in this step
Deletes == \E k \in 1..Len(threads) : \A j \in 1..Len(threads') : threads'[j] # threads[k]

\* what deleteThread does when the active id refers to a thread of the
\* registry: the registry is not left empty; deleting the active thread makes
\* a thread of the registry active, deleting another thread leaves the active
\* id as it is
C27_Deletion ==
    [][(Deletes /\ GetCurrentThread # NoThread) =>
          /\ Len(threads') >= 1
          /\ FindThread(threads, threadObjs, currentThreadId) \notin
                 {threads'[j] : j \in 1..Len(threads')} =>
                     FindThread(threads', threadObjs', currentThreadId') # NoThread
          /\ FindThread(threads, threadObjs, currentThreadId) \in
                 {threads'[j] : j \in 1..Len(threads')} =>
                     currentThreadId' = currentThreadId]_vars

\* ------------------------------------------------------------ C28
\* no save and no indexing job is under way
Quiescent ==
    /\ saving = {}
    /\ upserts = {}
    /\ \A j \in 1..Len(jobs) : jobs[j].pc = "returned"

\* C28: threads and the vector index share one persisted object without losing
\* updates: once a thread save and an index save that overlapped have both
\* finished, the persisted object holds the thread list written by the thread
\* save and the vector index written by the index save
C28_NoLostUpdate ==
    Quiescent =>
        /\ data.threads = ThreadsSnapshot(threads, threadObjs)
        /\ vectorIndex = documents

\* ------------------------------------------------------------ C29
\* C29: the input is disabled whenever the active thread is streaming: for
\* every interleaving of sends on several threads, thread switches and send
\* completions, while the displayed thread has a request in flight the message
\* input and the send button are disabled
C29_InputDisabledWhileStreaming ==
    (\E i \in DOMAIN sends : sends[i].thread = GetCurrentThread) => ~inputEnabled

\* ------------------------------------------------------------ C30
\* the items of the batch in flight that have completed
CompletedItems(job) == {k \in 1..Len(job.items) : job.items[k].pc = "done"}

\* C30: progress for an item is reported when that item completes: the progress
\* callback for a completed item is invoked without waiting for the remaining
\* items of the same batch to complete
C30_ProgressPerItem ==
    \A j \in 1..Len(jobs) :
        (jobs[j].pc = "batch" /\ ~AllSettled(jobs[j].items)) =>
            Len(jobs[j].progress) >= jobs[j].i + Cardinality(CompletedItems(jobs[j]))

\* ------------------------------------------------------------ job claims
\* a file read with another content than its record holds, or with no record,
\* does not complete as unchanged
ChangedNeverUnchanged ==
    \A j \in SameJobs : \A k \in 1..Len(jobs[j].items) :
        (/\ ReadSettles(j, k)
         /\ vault[jobs[j].items[k].path] # Unreadable
         /\ ~StoredSame(jobs[j].items[k].path, vault[jobs[j].items[k].path])) =>
            jobs'[j].items[k].result # "unchanged"

\* C31: after an indexing job that was not cancelled and in which no item
\* failed, the record of every candidate path holds the content the job read: a
\* file whose content changed since the previous job is summarized, replaced in
\* the store and counted as indexed, never as unchanged.
C31_ChangedContentReindexed == [][ChangedNeverUnchanged]_vars

\* the jobs that are in their loop over the batches
InLoop == {j \in 1..Len(jobs) : jobs[j].pc = "batch"}

\* the flag is set exactly while one job is in its loop
OneJobInLoop ==
    /\ Cardinality(InLoop) <= 1
    /\ isIndexing <=> InLoop # {}

\* the step of an index call made while the flag is set
CalledWhileIndexing == isIndexing /\ indexCalls' # indexCalls

\* such a call leaves the running job where it is: its items (no read is
\* started or settled), its counters and its progress reports, and with them
\* the store, the pending upserts, the persisted index and both flags
RefusedCallInert ==
    CalledWhileIndexing =>
        /\ jobs' = jobs
        /\ documents' = documents
        /\ upserts' = upserts
        /\ vectorIndex' = vectorIndex
        /\ indexingCancelled' = indexingCancelled
        /\ isIndexing' = isIndexing

C33_FlagReleasedAtEnd == isIndexing => InLoop # {}

\* the items of the batch of job that completed with this result
WithResult(job, result) ==
    Cardinality({k \in 1..Len(job.items) : job.items[k].result = result})

\* the step in which job j counts its batch
CountsItsBatch(j) == StartsBatch(j) \/ EndsLoop(j)

\* every item of a counted batch goes to the one counter of its result, and the
\* counters move in no other step
OneCounterPerItem ==
    \A j \in SameJobs :
        IF CountsItsBatch(j)
        THEN /\ jobs'[j].indexed = jobs[j].indexed + WithResult(jobs[j], "indexed")
             /\ jobs'[j].unchanged = jobs[j].unchanged + WithResult(jobs[j], "unchanged")
             /\ jobs'[j].skipped = jobs[j].skipped + WithResult(jobs[j], "failed")
             /\ WithResult(jobs[j], "indexed") + WithResult(jobs[j], "unchanged")
                    + WithResult(jobs[j], "failed") = Len(jobs[j].items)
        ELSE /\ jobs'[j].indexed = jobs[j].indexed
             /\ jobs'[j].unchanged = jobs[j].unchanged
             /\ jobs'[j].skipped = jobs[j].skipped

\* a job that leaves its loop with no cancellation requested has counted every
\* candidate
AllCountedUnlessCancelled ==
    \A j \in SameJobs :
        (EndsLoop(j) /\ ~indexingCancelled) => Counted(jobs'[j]) = Len(jobs[j].files)

\* a job that has left its loop has counted the candidates of the batches it
\* started, job.i being the index after the last of them
EndedJobCounted ==
    \A j \in 1..Len(jobs) :
        jobs[j].pc \in {"save", "returned"} =>
            /\ Counted(jobs[j]) = Min(jobs[j].i, Len(jobs[j].files))
            /\ jobs[j].i % BatchSize = 0

\* C34: at the end of every indexing job indexed + unchanged + skipped equals
\* the number of candidates in the batches that were started; it equals the
\* total candidate count when the job was not cancelled, and every candidate is
\* counted in exactly one of the three counters.
C34_CountersPartition ==
    []EndedJobCounted /\ [][OneCounterPerItem /\ AllCountedUnlessCancelled]_vars

\* a job that was not cancelled has ended with one candidate in each counter
C34_Witness ==
    /\ ~isIndexing
    /\ ~indexingCancelled
    /\ jobs # <<>>
    /\ jobs[Len(jobs)].pc \in {"save", "returned"}
    /\ jobs[Len(jobs)].indexed = 1
    /\ jobs[Len(jobs)].unchanged = 1
    /\ jobs[Len(jobs)].skipped = 1

\* the candidates of the indexing jobs
CandidatePaths == {VaultPaths[n] : n \in 1..Len(VaultPaths)}

\* the records of docs, as a set
RecordsOf(docs) == {docs[d] : d \in 1..Len(docs)}

\* the records kept for paths that are no candidates
Stale(docs) == {doc \in RecordsOf(docs) : doc.path \notin CandidatePaths}

\* no step removes or changes a record of a path that is no candidate, and no
\* step removes the last record of any path
NoRecordRemoved ==
    /\ Stale(documents') = Stale(documents)
    /\ \A doc \in RecordsOf(documents) :
           \E kept \in RecordsOf(documents') : kept.path = doc.path

\* the record restored for the file that is gone is in the store as restored
RestoredRecordKept == Restored("gone.md", "Aa") \in RecordsOf(documents)

\* C35: an indexing job never removes a record from the Vector Store: a
\* document that is in the store before the job and whose path is not among the
\* job's candidates (deleted or filtered out) is still in the store, unchanged,
\* after the job.
C35_NoRecordRemoved == []RestoredRecordKept /\ [][NoRecordRemoved]_vars

\* a job that was not cancelled has ended over the restored index: the three
\* candidates are stored next to the record of the file that is gone, and the
\* restored record of a.md was replaced
C35_Witness ==
    /\ ~isIndexing
    /\ ~indexingCancelled
    /\ jobs # <<>>
    /\ jobs[Len(jobs)].pc \in {"save", "returned"}
    /\ jobs[Len(jobs)].indexed = 3
    /\ Len(documents) = 4
    /\ Restored("gone.md", "Aa") \in RecordsOf(documents)
    /\ Restored("a.md", "zzzzzz") \notin RecordsOf(documents)
    /\ \E doc \in RecordsOf(documents) : doc.path = "a.md" /\ doc.content = "Aa"

\* ------------------------------------------------------------ send claims
\* the step in which the search of send i resolves with no document
RetrievalEmpty(i) ==
    /\ sends[i].pc = "search"
    /\ sends[i].emptyAtCall \/ (~SearchThrows(documents, sends[i].message)
                                /\ Search(documents, sends[i].message, TopK) = <<>>)
    /\ (i \notin DOMAIN sends') \/ sends'[i] # sends[i]

\* such a send returns in that step with no request made, with the history and
\* the persisted threads as they were and with the flag of its thread cleared
EmptyRetrievalEndsSend ==
    \A i \in DOMAIN sends : RetrievalEmpty(i) =>
        /\ i \notin DOMAIN sends'
        /\ sends[i].requests = 0
        /\ threadObjs'[sends[i].thread].history = threadObjs[sends[i].thread].history
        /\ data' = data
        /\ ~threadObjs'[sends[i].thread].isStreaming
        /\ ~IsStreaming(streamingThreads', threadObjs[sends[i].thread].id)

\* C36: when retrieval returns no documents for a send, no request is submitted
\* to the completion backend, the thread history is left unchanged (neither the
\* user message nor the fixed reply is appended or persisted), and the
\* streaming flag is released.
C36_EmptyRetrieval == [][EmptyRetrievalEndsSend]_vars

\* a send on the empty store has returned: the thread took the question as its
\* name, its history is empty, in memory and persisted, and its flag is cleared
C36_Witness ==
    /\ Len(documents) = 0
    /\ started = 1
    /\ DOMAIN sends = {}
    /\ threadObjs[1].name = "q"
    /\ threadObjs[1].history = <<>>
    /\ ~threadObjs[1].isStreaming
    /\ ~IsStreaming(streamingThreads, threadObjs[1].id)
    /\ \A k \in 1..Len(data.threads) : data.threads[k].history = <<>>

\* the thread objects the sends that move in this step were started on
SendingThreads ==
    {sends[i].thread : i \in {k \in DOMAIN sends : k \notin DOMAIN sends' \/ sends'[k] # sends[k]}}
    \cup {sends'[i].thread : i \in (DOMAIN sends') \ (DOMAIN sends)}

\* the thread objects that exist and that no moving send was started on
OtherThreads == (1..Len(threadObjs)) \ SendingThreads

\* the history and the streaming flag, as field and as map entry, of thread u
\* are the same before and after the step
Untouched(u) ==
    /\ threadObjs'[u].history = threadObjs[u].history
    /\ threadObjs'[u].isStreaming = threadObjs[u].isStreaming
    /\ IsStreaming(streamingThreads', threadObjs[u].id)
           = IsStreaming(streamingThreads, threadObjs[u].id)

\* a step of a send leaves every other thread untouched
SendLeavesOthers ==
    sends' # sends => \A u \in OtherThreads : Untouched(u)

\* the exchange of a send whose stream ended goes to the thread it was started
\* on, whichever thread is active
ExchangeToOrigin ==
    \A i \in DOMAIN sends : StreamEnded(i) =>
        IsExchange(threadObjs[sends[i].thread].history,
                   threadObjs'[sends[i].thread].history, sends[i].message)

\* C37: a send only affects the thread it was started on: if the active thread
\* is switched while the send is streaming, the user and assistant messages are
\* still appended to the originating thread, and the history and streaming flag
\* of every other thread are unchanged by that send.
C37_SendAffectsOwnThread == [][SendLeavesOthers /\ ExchangeToOrigin]_vars

\* no two thread objects carry one id
DistinctIds ==
    \A u \in 1..Len(threadObjs) : \A v \in 1..Len(threadObjs) :
        threadObjs[u].id = threadObjs[v].id => u = v

\* the same, for the steps taken while the thread ids are distinct
C37_WithDistinctIds ==
    [][DistinctIds => (SendLeavesOthers /\ ExchangeToOrigin)]_vars

\* a history of pairs: a user message, then an assistant message
Alternates(history) ==
    /\ Len(history) % 2 = 0
    /\ \A n \in 1..Len(history) :
           history[n].role = IF n % 2 = 1 THEN "user" ELSE "assistant"

\* C38: in every reachable state each thread's history has even length and
\* alternates strictly user, assistant, user, assistant starting with a user
\* message, for any interleaving of sends, failed sends, clears and thread
\* switches.
C38_HistoryAlternates ==
    /\ \A u \in 1..Len(threadObjs) : Alternates(threadObjs[u].history)
    /\ \A k \in 1..Len(data.threads) : Alternates(data.threads[k].history)

\* two sends have ended on a thread whose history was cleared in between, while
\* another thread is the active one and the save of the clear is still pending
C38_Witness ==
    /\ Len(threads) = 2
    /\ saving # {}
    /\ started >= 2
    /\ \E u \in 1..Len(threadObjs) :
           /\ Len(threadObjs[u].history) = 2
           /\ threadObjs[u].id # currentThreadId
           /\ threadObjs[u].history[1].role = "user"
           /\ threadObjs[u].history[2].role = "assistant"

\* C39: no thread is ever persisted with its streaming flag set: every thread
\* record written to persisted state, and therefore every thread restored at
\* load time when no request is in flight, has its streaming flag cleared.
C39_PersistedIdle ==
    \A k \in 1..Len(data.threads) : ~data.threads[k].isStreaming

\* C40: thread ids are unique: after any sequence of thread creations and
\* deletions, including two creations that observe the same clock value, no two
\* threads in the registry have the same id, so deleting or switching to a
\* thread by id affects exactly one thread.
C40_UniqueThreadIds ==
    \A k \in 1..Len(threads) : \A l \in 1..Len(threads) :
        threadObjs[threads[k]].id = threadObjs[threads[l]].id => k = l

====
